---- MODULE Spec2Model ----
(***************************************************************************)
(* A state-machine model of the gidh-analytics real-time pipeline:         *)
(*   - BarAggregator      (src/service/bar_aggregator.py)                  *)
(*   - FeatureEnricher    (src/core/feature_enricher.py)                   *)
(*   - AlertEngine        (src/core/alert_engine.py)                       *)
(* Each component has its own specification (SpecAgg, SpecEnr, SpecAlert); *)
(* SpecRegime runs the sensor stage of the AlertEngine alone. The          *)
(* variables of the other components keep their initial value.             *)
(* Prices are integers (ticks of the price grid); sensor samples and       *)
(* thresholds are scaled by 100 (0.25 is 25).                              *)
(***************************************************************************)
EXTENDS Integers, Sequences, FiniteSets, TLC

VARIABLES
    \* ---- BarAggregator ----
    interval_min,            \* self.interval_min
    building_bar,            \* self.building_bar (NoBar when None)
    bar_total_price_volume,  \* self.bar_total_price_volume
    prev_session_pv,         \* self.prev_session_pv (None or a number)
    prev_cum_vol,            \* self.prev_cum_vol (None or a number)
    bar_history,             \* self.bar_history
    completed_bar,           \* what the last add_tick returned (NoBar when None)
    aggTicks,                \* number of add_tick calls so far
    lastTickTs,              \* timestamp of the previous add_tick's tick (None before the first)
    tickPriced,              \* whether the previous add_tick's tick carried a usable last_price
    feedVolume,              \* volume_traded of the instrument's previous tick, as enrich_tick keeps it
    lastCumVol,              \* the latest volume_traded any tick carried (None before the first)
    cumRegressed,            \* some tick carried a volume_traded below lastCumVol
    bucketTicks,             \* the priced ticks the building bar was made of, in order
    \* ---- FeatureEnricher (one instrument) ----
    instrument_state,        \* self.instrument_states[token]
    enriched_tick,           \* what the last enrich_tick returned (NoTick before the first)
    enrTicks,                \* number of enrich_tick calls so far
    \* ---- AlertEngine (one (stock, interval) key) ----
    state,                   \* self.states[key]
    regime_hist,             \* self.regime_hist[key]
    cost_regime,             \* local cost of the last run_logic call
    path_regime,             \* local path of the last run_logic call
    bar,                     \* timestamp and sensor readings of the last run_logic call's bar
    prev_position,           \* state["position"] when the last run_logic call began
    fired,                   \* events _fire_alert built in the last run_logic call
    sink_ok,                 \* whether the signal sink accepted the last event
    openEntry,               \* "NONE", or the side of the last entry fired with no exit fired since
    entryBar,                \* timestamp of the bar of the last entry (0 before the first)
    tradeHigh,               \* highest high of the bars since the entry bar (0: no trade)
    tradeLow,                \* lowest low of the bars since the entry bar (0: no trade)
    barNo,                   \* number of finalized bars processed so far
    sessionOver,             \* the session has ended: no further bar arrives
    \* ---- DataPipeline (one instrument; one record per run of the pipeline) ----
    source,                  \* the tick stream the data source replays
    signal_sink_up,          \* whether the signal sink accepts events
    pipeline,                \* run -> queue, aggregators, batches and what the run put out
    \* ---- PatternDetector (one calculate_scores call) ----
    div_bar,                 \* current_bar
    div_history,             \* bar_history
    div_scores,              \* what calculate_scores returned (NoScores before the call)
    divCalls,                \* number of calculate_scores calls so far
    \* ---- StrategyEngine (one stock) ----
    states,                  \* StrategyEngine.states[stock]
    strategy_bar,            \* the bar of the last run_logic call: interval, close, timestamp
    strategy_events,         \* the events that call passed to _fire_log, in order
    strategy_raised,         \* that call ended with an exception
    last_event,              \* type of the last event emitted so far ("NONE" before the first)
    \* ---- DataPipeline in backtesting mode: queue accounting, batch sizes, clock ----
    backtest_source,         \* the messages the file source delivers, in order
    processor                \* queue counters, batch lengths, clock and events of the run

aggVars == <<interval_min, building_bar, bar_total_price_volume, prev_session_pv,
             prev_cum_vol, bar_history, completed_bar, aggTicks, lastTickTs,
             tickPriced, feedVolume, lastCumVol, cumRegressed, bucketTicks>>
enrVars == <<instrument_state, enriched_tick, enrTicks>>
alertVars == <<state, regime_hist, cost_regime, path_regime, bar, prev_position,
               fired, sink_ok, openEntry, entryBar, tradeHigh, tradeLow, barNo,
               sessionOver>>
pipeVars == <<source, signal_sink_up, pipeline>>
divVars == <<div_bar, div_history, div_scores, divCalls>>
stratVars == <<states, strategy_bar, strategy_events, strategy_raised, last_event>>
batchVars == <<backtest_source, processor>>
vars == <<aggVars, enrVars, alertVars, pipeVars, divVars, stratVars, batchVars>>

\* Python's None for an Optional number.
None == -1

\* ---- bounds of the model ----
MaxAggTicks == 3
MaxStructTicks == 4
MaxFlowTicks == 3
MaxEnrTicks == 3
MaxBars == 4
MaxPipeTicks == 3

\* Price levels and volumes the inputs are drawn from.
Prices == {1, 2, 3}
CumVolumes == {0, 1, 2}
AvgPrices == {2}

Max(a, b) == IF a >= b THEN a ELSE b
Min(a, b) == IF a <= b THEN a ELSE b

(***************************************************************************)
(*                              BarAggregator                              *)
(***************************************************************************)

BAR_INTERVALS_MINUTES == {1, 3, 5, 10, 15}

\* The session clock: seconds since midnight. Ticks arrive at 00:59:10,
\* 01:00:10 and 01:01:10, across the hour boundary.
TickTimes == {3550, 3610, 3670}

NoBar == [timestamp |-> None]

\* maxlen of self.bar_history.
HISTORY_MAXLEN == 200

\* deque(maxlen=n).append(x): the oldest element is dropped when full.
DequeAppend(d, x, n) == IF Len(d) < n THEN Append(d, x) ELSE Append(Tail(d), x)

\* A bucket start that keeps the minute of the hour and loses the hour.
MutBucketStart(ts, iv) == (((ts \div 60) % 60) \div iv) * iv * 60

\* bar_timestamp of add_tick: seconds and microseconds zeroed, the minute of
\* the hour floored to a multiple of the interval.
BucketStart(ts, iv) ==
    LET hour   == ts \div 3600
        minute == (ts \div 60) % 60
        minute_val == (minute \div iv) * iv
    IN  hour * 3600 + minute_val * 60

\* The ticks of one instrument as they reach the enricher and then the
\* aggregator. A tick without a usable last_price is dropped by add_tick
\* before any other field is read; its volume_traded still counts for the
\* tick_volume of the next tick.
AggPrices == {1, 2}
AggCumVolumes == {0, 2}

AggTickInputs ==
    [timestamp : TickTimes, last_price : AggPrices,
     average_traded_price : {None} \cup AvgPrices,
     volume_traded : {None} \cup AggCumVolumes, trade_sign : {1}]
    \cup
    [timestamp : TickTimes, last_price : {None},
     average_traded_price : {None}, volume_traded : {None}, trade_sign : {1}]
    \cup
    [timestamp : TickTimes, last_price : {0},
     average_traded_price : {None}, volume_traded : {2}, trade_sign : {1}]

\* Ticks that differ in price and time only (no volume fields): the shapes of
\* successive bars.
StructTickInputs ==
    [timestamp : TickTimes, last_price : {None} \cup Prices,
     average_traded_price : {None}, volume_traded : {None}, trade_sign : {1}]

\* Ticks of one price that differ in their flow (volume and trade sign), and
\* ticks without a price, which carry on the sign of the tick before them.
FlowTickInputs ==
    [timestamp : TickTimes, last_price : {1}, average_traded_price : {None},
     volume_traded : {0, 1, 3}, trade_sign : {-1, 0, 1}]
    \cup
    [timestamp : TickTimes, last_price : {None}, average_traded_price : {None},
     volume_traded : {None, 3}, trade_sign : {0}]

\* _start_new_bar: the BarData built from the first tick of a bucket.
\* bar_vwap is the fraction <<numerator, denominator>> (0.0 is <<0, 1>>).
\* The BarData fields that only copy an input and are never read back by the
\* aggregator (stock_name, instrument_token, interval, session_vwap,
\* bar_count) are not carried.
StartNewBar(bar_timestamp, tick) ==
    [timestamp |-> bar_timestamp,
     open |-> tick.last_price, high |-> tick.last_price,
     low |-> tick.last_price, close |-> tick.last_price,
     volume |-> 0, bar_vwap |-> <<0, 1>>, bar_delta |-> 0]

\* A high that is never raised after the bar's first tick.
MutUpdHigh(b, tick) == b.high

\* New high of _update_bar_data.
UpdHigh(b, tick) == IF tick.last_price > b.high THEN tick.last_price ELSE b.high

\* A low that is never lowered after the bar's first tick.
MutUpdLow(b, tick) == b.low

\* New low of _update_bar_data.
UpdLow(b, tick) == IF tick.last_price < b.low THEN tick.last_price ELSE b.low

\* A dv that counts the whole cumulative volume of every tick.
MutTickDv(tick) == tick.volume_traded

\* dv of _update_bar_data (only read when volume_traded and
\* average_traded_price are both present).
TickDv(tick) ==
    IF prev_session_pv # None /\ prev_cum_vol # None
    THEN Max(0, tick.volume_traded - prev_cum_vol)
    ELSE tick.tick_volume

\* dpv of _update_bar_data.
TickDpv(tick) ==
    IF prev_session_pv # None /\ prev_cum_vol # None
    THEN Max(0, tick.average_traded_price * tick.volume_traded - prev_session_pv)
    ELSE tick.last_price * tick.tick_volume

\* A bar_delta that adds the tick volume whatever the side of the trade.
MutBarDelta(b, tick) ==
    IF tick.tick_volume > 0 THEN b.bar_delta + tick.tick_volume ELSE b.bar_delta

\* raw_scores['bar_delta'] after the tick (an absent key reads as 0).
BarDelta(b, tick) ==
    IF tick.tick_volume > 0
    THEN b.bar_delta + tick.tick_volume * tick.trade_sign
    ELSE b.bar_delta

\* _update_bar_data applied to building bar b (b is the bar after a possible
\* _start_new_bar, btpv the accumulator after a possible reset).
UpdateBarData(b, btpv, tick) ==
    LET hasVol == tick.volume_traded # None /\ tick.average_traded_price # None
        dv  == IF hasVol THEN TickDv(tick) ELSE 0
        dpv == IF hasVol THEN TickDpv(tick) ELSE 0
        vol == IF dv > 0 THEN b.volume + dv ELSE b.volume
        pv  == IF dv > 0 THEN btpv + dpv ELSE btpv
    IN  /\ building_bar' = [b EXCEPT !.high = UpdHigh(b, tick),
                                     !.low = UpdLow(b, tick),
                                     !.close = tick.last_price,
                                     !.bar_delta = BarDelta(b, tick),
                                     !.volume = vol,
                                     !.bar_vwap = IF dv > 0 /\ vol > 0
                                                  THEN <<pv, vol>> ELSE b.bar_vwap]
        /\ bar_total_price_volume' = pv
        /\ prev_session_pv' = IF hasVol
                              THEN tick.average_traded_price * tick.volume_traded
                              ELSE prev_session_pv
        /\ prev_cum_vol' = IF hasVol THEN tick.volume_traded ELSE prev_cum_vol

\* x > y + eps and x < y - eps of _finalize_bar. eps = 1e-9 is below the
\* price grid: for prices on the grid the comparisons are those of the
\* prices.
AboveEps(x, y) == x > y
BelowEps(x, y) == x < y

\* Structure flags whose inside test has its two comparisons the wrong way
\* round.
MutStructureFlags(b, hist) ==
    IF hist = <<>>
    THEN [HH |-> FALSE, HL |-> FALSE, LH |-> FALSE, LL |-> FALSE,
          inside |-> FALSE, outside |-> FALSE, structure |-> "init"]
    ELSE LET prev == hist[Len(hist)]
             HH == AboveEps(b.high, prev.high)
             HL == AboveEps(b.low, prev.low)
             LH == BelowEps(b.high, prev.high)
             LL == BelowEps(b.low, prev.low)
             inside == ~BelowEps(b.high, prev.high) /\ ~AboveEps(b.low, prev.low)
             outside == HH /\ LL
         IN  [HH |-> HH, HL |-> HL, LH |-> LH, LL |-> LL,
              inside |-> inside, outside |-> outside,
              structure |-> IF HH /\ HL THEN "up"
                            ELSE IF LL /\ LH THEN "down"
                            ELSE IF inside THEN "inside"
                            ELSE IF outside THEN "outside"
                            ELSE "mixed"]

\* _finalize_bar, market structure flags of final bar b against the last bar
\* of bar_history (hist).
StructureFlags(b, hist) ==
    IF hist = <<>>
    THEN [HH |-> FALSE, HL |-> FALSE, LH |-> FALSE, LL |-> FALSE,
          inside |-> FALSE, outside |-> FALSE, structure |-> "init"]
    ELSE LET prev == hist[Len(hist)]
             HH == AboveEps(b.high, prev.high)
             HL == AboveEps(b.low, prev.low)
             LH == BelowEps(b.high, prev.high)
             LL == BelowEps(b.low, prev.low)
             inside == ~AboveEps(b.high, prev.high) /\ ~BelowEps(b.low, prev.low)
             outside == AboveEps(b.high, prev.high) /\ BelowEps(b.low, prev.low)
         IN  [HH |-> HH, HL |-> HL, LH |-> LH, LL |-> LL,
              inside |-> inside, outside |-> outside,
              structure |-> IF HH /\ HL THEN "up"
                            ELSE IF LL /\ LH THEN "down"
                            ELSE IF inside THEN "inside"
                            ELSE IF outside THEN "outside"
                            ELSE "mixed"]

\* _finalize_bar: the building bar with its structure flags.
FinalizeBar(b, hist) == b @@ StructureFlags(b, hist)

\* tick_volume as enrich_tick gave it to the tick: the rise of volume_traded
\* over the previous tick's, 0 when either is missing or on a regression.
FeedTickVolume(tick) ==
    IF feedVolume # None /\ tick.volume_traded # None
    THEN Max(0, tick.volume_traded - feedVolume)
    ELSE 0

\* The EnrichedTick add_tick receives for tick.
Enriched(tick) ==
    [timestamp |-> tick.timestamp, last_price |-> tick.last_price,
     average_traded_price |-> tick.average_traded_price,
     volume_traded |-> tick.volume_traded,
     tick_volume |-> FeedTickVolume(tick), trade_sign |-> tick.trade_sign]

\* What is remembered of a tick of the building bar: its price, its flow, and
\* whether it carried a volume_traded above the one the aggregator recorded.
TickNote(tick) ==
    [last_price |-> tick.last_price, tick_volume |-> tick.tick_volume,
     trade_sign |-> tick.trade_sign,
     raised |-> /\ tick.volume_traded # None
                /\ tick.average_traded_price # None
                /\ prev_cum_vol # None
                /\ tick.volume_traded > prev_cum_vol]

\* Bookkeeping of the tick stream and of the bars add_tick returned.
NoteTick(tick, returned) ==
    /\ aggTicks' = aggTicks + 1
    /\ lastTickTs' = tick.timestamp
    /\ tickPriced' = (tick.last_price # None /\ tick.last_price # 0)
    /\ feedVolume' = tick.volume_traded
    /\ lastCumVol' = IF tick.volume_traded # None THEN tick.volume_traded ELSE lastCumVol
    /\ cumRegressed' = \/ cumRegressed
                       \/ /\ tick.volume_traded # None
                          /\ lastCumVol # None
                          /\ tick.volume_traded < lastCumVol
    /\ completed_bar' = returned
    /\ UNCHANGED <<enrVars, alertVars, pipeVars, divVars, stratVars, batchVars>>

\* add_tick, tick without a usable last_price: returns None, touches nothing.
AddTickSkipped(raw) ==
    LET tick == Enriched(raw) IN
    /\ tick.last_price = None \/ tick.last_price = 0
    /\ NoteTick(tick, NoBar)
    /\ UNCHANGED <<interval_min, building_bar, bar_total_price_volume,
                   prev_session_pv, prev_cum_vol, bar_history, bucketTicks>>

\* A new bar stamped with the tick's own timestamp.
MutStartBar(bar_timestamp, tick) == StartNewBar(tick.timestamp, tick)

\* add_tick, the bar _start_new_bar makes for the tick's bucket.
StartBar(bar_timestamp, tick) == StartNewBar(bar_timestamp, tick)

\* add_tick, first tick of the aggregator: a new bar is started, none returned.
AddTickFirst(raw) ==
    LET tick == Enriched(raw) IN
    /\ tick.last_price # None /\ tick.last_price # 0
    /\ building_bar = NoBar
    /\ UpdateBarData(StartBar(BucketStart(tick.timestamp, interval_min), tick), 0, tick)
    /\ bucketTicks' = <<TickNote(tick)>>
    /\ NoteTick(tick, NoBar)
    /\ UNCHANGED <<interval_min, bar_history>>

\* add_tick, tick of the bucket of the building bar.
AddTickSameBucket(raw) ==
    LET tick == Enriched(raw) IN
    /\ tick.last_price # None /\ tick.last_price # 0
    /\ building_bar # NoBar
    /\ building_bar.timestamp = BucketStart(tick.timestamp, interval_min)
    /\ UpdateBarData(building_bar, bar_total_price_volume, tick)
    /\ bucketTicks' = Append(bucketTicks, TickNote(tick))
    /\ NoteTick(tick, NoBar)
    /\ UNCHANGED <<interval_min, bar_history>>

\* add_tick, tick of another bucket: _finalize_bar (the building bar gets its
\* structure flags, is appended to bar_history and returned), then a new bar
\* is started.
AddTickRollover(raw) ==
    LET tick == Enriched(raw) IN
    /\ tick.last_price # None /\ tick.last_price # 0
    /\ building_bar # NoBar
    /\ building_bar.timestamp # BucketStart(tick.timestamp, interval_min)
    /\ bar_history' = DequeAppend(bar_history, FinalizeBar(building_bar, bar_history),
                                  HISTORY_MAXLEN)
    /\ UpdateBarData(StartBar(BucketStart(tick.timestamp, interval_min), tick), 0, tick)
    /\ bucketTicks' = <<TickNote(tick)>>
    /\ NoteTick(tick, FinalizeBar(building_bar, bar_history))
    /\ UNCHANGED interval_min

InitAgg ==
    /\ interval_min \in BAR_INTERVALS_MINUTES
    /\ building_bar = NoBar
    /\ bar_total_price_volume = 0
    /\ prev_session_pv = None
    /\ prev_cum_vol = None
    /\ bar_history = <<>>
    /\ completed_bar = NoBar
    /\ aggTicks = 0
    /\ lastTickTs = None
    /\ tickPriced = FALSE
    /\ feedVolume = None
    /\ lastCumVol = None
    /\ cumRegressed = FALSE
    /\ bucketTicks = <<>>

\* The aggregator when it is not the component under study.
IdleAgg ==
    /\ interval_min = 1
    /\ building_bar = NoBar
    /\ bar_total_price_volume = 0
    /\ prev_session_pv = None
    /\ prev_cum_vol = None
    /\ bar_history = <<>>
    /\ completed_bar = NoBar
    /\ aggTicks = 0
    /\ lastTickTs = None
    /\ tickPriced = FALSE
    /\ feedVolume = None
    /\ lastCumVol = None
    /\ cumRegressed = FALSE
    /\ bucketTicks = <<>>

\* One add_tick call with any tick of the input domain whose timestamp is not
\* before the previous tick's (the tick source delivers an instrument's ticks
\* in chronological order).
InOrder(t) == lastTickTs = None \/ t.timestamp >= lastTickTs

NextTicks == {t \in AggTickInputs : aggTicks < MaxAggTicks /\ InOrder(t)}

NextAgg ==
    \/ \E tick \in NextTicks : AddTickSkipped(tick)
    \/ \E tick \in NextTicks : AddTickFirst(tick)
    \/ \E tick \in NextTicks : AddTickSameBucket(tick)
    \/ \E tick \in NextTicks : AddTickRollover(tick)

NextStructTicks == {t \in StructTickInputs : aggTicks < MaxStructTicks /\ InOrder(t)}

NextStruct ==
    \/ \E tick \in NextStructTicks : AddTickSkipped(tick)
    \/ \E tick \in NextStructTicks : AddTickFirst(tick)
    \/ \E tick \in NextStructTicks : AddTickSameBucket(tick)
    \/ \E tick \in NextStructTicks : AddTickRollover(tick)

NextFlowTicks == {t \in FlowTickInputs : aggTicks < MaxFlowTicks /\ InOrder(t)}

NextFlow ==
    \/ \E tick \in NextFlowTicks : AddTickSkipped(tick)
    \/ \E tick \in NextFlowTicks : AddTickFirst(tick)
    \/ \E tick \in NextFlowTicks : AddTickSameBucket(tick)
    \/ \E tick \in NextFlowTicks : AddTickRollover(tick)


(***************************************************************************)
(*                 FeatureEnricher, one instrument's state                 *)
(***************************************************************************)

ICEBERG_CONFIRMATION_THRESHOLD == 2
\* float('inf'): no pre-calculated large trade threshold.
Inf == -2
\* maxlen of trade_volume_window, and the samples the fallback waits for.
WINDOW_MAXLEN == 1000
WINDOW_MIN_SAMPLES == 200

NoDepth == [present |-> FALSE, buy |-> <<>>, sell |-> <<>>]
NoTick == [last_price |-> None, volume_traded |-> None, depth |-> NoDepth,
           present |-> FALSE]

\* A DepthLevel: price and quantity of the best level of one side.
DepthQuantities == {1}
DepthPrices == {1, 3}
DepthLevels == [price : DepthPrices, quantity : DepthQuantities]
\* One side of an OrderDepth: an empty list or a list whose level 0 is given.
DepthSides == {<<>>} \cup {<<l>> : l \in DepthLevels}

\* A TickData as the enricher reads it.
EnrTickInputs ==
    [last_price : {None} \cup Prices,
     volume_traded : {None} \cup CumVolumes,
     depth : {NoDepth} \cup
             {d \in [present : {TRUE}, buy : DepthSides, sell : DepthSides] :
                 d.buy # <<>> \/ d.sell # <<>>}]

Thresholds == {0, 2}

\* _get_instrument_state: the state of an instrument on creation; thr is the
\* threshold load_thresholds stored (Inf when there is none).
NewInstrumentState(thr) ==
    [last_tick |-> NoTick,
     last_best_bid_price |-> 0,
     last_best_ask_price |-> 0,
     last_best_bid_qty |-> 0,
     last_best_ask_qty |-> 0,
     hidden_sell_order_refill_count |-> 0,
     hidden_buy_order_refill_count |-> 0,
     large_trade_threshold |-> thr,
     last_trade_sign |-> 0,
     trade_volume_window |-> <<>>]

HasBuy(tick) == tick.depth.present /\ tick.depth.buy # <<>>
HasSell(tick) == tick.depth.present /\ tick.depth.sell # <<>>

\* A tick rule that returns the price change instead of its sign.
MutTickRule(lp, st) ==
    IF st.last_tick.present /\ st.last_tick.last_price # None
    THEN IF lp # st.last_tick.last_price THEN lp - st.last_tick.last_price
         ELSE st.last_trade_sign
    ELSE st.last_trade_sign

\* A tick rule that answers 0 (unknown) when the price did not change.
MutTickRuleUnknown(lp, st) ==
    IF st.last_tick.present /\ st.last_tick.last_price # None
    THEN IF lp > st.last_tick.last_price THEN 1
         ELSE IF lp < st.last_tick.last_price THEN -1
         ELSE 0
    ELSE st.last_trade_sign

\* The tick rule of _classify_trade_sign: the sign of the price change against
\* the previous tick, the stored sign when there is no change to go by.
TickRule(lp, st) ==
    IF st.last_tick.present /\ st.last_tick.last_price # None
    THEN IF lp > st.last_tick.last_price THEN 1
         ELSE IF lp < st.last_tick.last_price THEN -1
         ELSE st.last_trade_sign
    ELSE st.last_trade_sign

\* A classification that takes a trade at the best ask for one inside the
\* spread.
MutClassifyTradeSign(tick, st) ==
    LET lp == tick.last_price
        cur_bid_px == IF HasBuy(tick) THEN tick.depth.buy[1].price
                      ELSE st.last_best_bid_price
        cur_ask_px == IF HasSell(tick) THEN tick.depth.sell[1].price
                      ELSE st.last_best_ask_price
    IN  IF lp = None THEN st.last_trade_sign
        ELSE IF cur_bid_px > 0 /\ cur_ask_px > 0
             THEN IF cur_ask_px = cur_bid_px \/ cur_ask_px < cur_bid_px
                  THEN TickRule(lp, st)
                  ELSE IF lp > cur_ask_px THEN 1
                  ELSE IF lp <= cur_bid_px THEN -1
                  ELSE TickRule(lp, st)
             ELSE TickRule(lp, st)

\* _classify_trade_sign
ClassifyTradeSign(tick, st) ==
    LET lp == tick.last_price
        cur_bid_px == IF HasBuy(tick) THEN tick.depth.buy[1].price
                      ELSE st.last_best_bid_price
        cur_ask_px == IF HasSell(tick) THEN tick.depth.sell[1].price
                      ELSE st.last_best_ask_price
    IN  IF lp = None THEN st.last_trade_sign
        ELSE IF cur_bid_px > 0 /\ cur_ask_px > 0
             THEN IF cur_ask_px = cur_bid_px \/ cur_ask_px < cur_bid_px
                  THEN TickRule(lp, st)
                  ELSE IF lp >= cur_ask_px THEN 1
                  ELSE IF lp <= cur_bid_px THEN -1
                  ELSE TickRule(lp, st)
             ELSE TickRule(lp, st)

\* A tick_volume that is not clamped when the cumulative volume regresses.
MutTickVolume(tick, st) ==
    IF st.last_tick.present /\ tick.volume_traded # None
       /\ st.last_tick.volume_traded # None
    THEN tick.volume_traded - st.last_tick.volume_traded
    ELSE 0

\* tick_volume of enrich_tick
TickVolume(tick, st) ==
    IF st.last_tick.present /\ tick.volume_traded # None
       /\ st.last_tick.volume_traded # None
    THEN IF tick.volume_traded - st.last_tick.volume_traded < 0 THEN 0
         ELSE tick.volume_traded - st.last_tick.volume_traded
    ELSE 0

Range(q) == {q[i] : i \in DOMAIN q}

\* The k-th smallest (from 0) of the samples of window w.
KthSmallest(w, k) ==
    CHOOSE v \in Range(w) :
        /\ Cardinality({i \in DOMAIN w : w[i] < v}) <= k
        /\ Cardinality({i \in DOMAIN w : w[i] <= v}) > k

\* tick_volume >= np.percentile(window, 99), with numpy's linear
\* interpolation between the two samples around rank 0.99 * (n - 1).
AtLeastP99(w, tick_volume) ==
    LET n  == Len(w)
        lo == (99 * (n - 1)) \div 100
        hi == IF lo + 1 < n THEN lo + 1 ELSE lo
        a  == KthSmallest(w, lo)
        b  == KthSmallest(w, hi)
    IN  100 * tick_volume >= 100 * a + (99 * (n - 1) - 100 * lo) * (b - a)

\* A large-trade test that wants the volume above the pre-loaded threshold.
MutIsLargeTrade(tick_volume, st) ==
    /\ tick_volume > 0
    /\ IF st.large_trade_threshold # Inf
       THEN tick_volume > st.large_trade_threshold
       ELSE /\ Len(st.trade_volume_window) > WINDOW_MIN_SAMPLES
            /\ AtLeastP99(st.trade_volume_window, tick_volume)

\* is_large_trade of enrich_tick
IsLargeTrade(tick_volume, st) ==
    /\ tick_volume > 0
    /\ IF st.large_trade_threshold # Inf
       THEN tick_volume >= st.large_trade_threshold
       ELSE /\ Len(st.trade_volume_window) > WINDOW_MIN_SAMPLES
            /\ AtLeastP99(st.trade_volume_window, tick_volume)

\* trade_volume_window after enrich_tick
WindowAfter(tick_volume, st) ==
    IF tick_volume > 0 /\ st.large_trade_threshold = Inf
    THEN DequeAppend(st.trade_volume_window, tick_volume, WINDOW_MAXLEN)
    ELSE st.trade_volume_window

\* A sell-side refill count that does not look at the displayed quantity.
MutSellRefillAfter(tick, tick_volume, trade_sign, st) ==
    IF HasBuy(tick) /\ HasSell(tick) /\ tick_volume > 0
    THEN IF tick.depth.sell[1].price # st.last_best_ask_price THEN 0
         ELSE IF /\ trade_sign = 1
                 /\ tick.last_price = st.last_best_ask_price
              THEN st.hidden_sell_order_refill_count + 1
              ELSE st.hidden_sell_order_refill_count
    ELSE st.hidden_sell_order_refill_count

\* hidden_sell_order_refill_count after the absorption block of enrich_tick
SellRefillAfter(tick, tick_volume, trade_sign, st) ==
    IF HasBuy(tick) /\ HasSell(tick) /\ tick_volume > 0
    THEN IF tick.depth.sell[1].price # st.last_best_ask_price THEN 0
         ELSE IF /\ trade_sign = 1
                 /\ tick.last_price = st.last_best_ask_price
                 /\ tick.depth.sell[1].quantity > st.last_best_ask_qty - tick_volume
              THEN st.hidden_sell_order_refill_count + 1
              ELSE st.hidden_sell_order_refill_count
    ELSE st.hidden_sell_order_refill_count

\* hidden_buy_order_refill_count after the absorption block of enrich_tick
BuyRefillAfter(tick, tick_volume, trade_sign, st) ==
    IF HasBuy(tick) /\ HasSell(tick) /\ tick_volume > 0
    THEN IF tick.depth.buy[1].price # st.last_best_bid_price THEN 0
         ELSE IF /\ trade_sign = -1
                 /\ tick.last_price = st.last_best_bid_price
                 /\ tick.depth.buy[1].quantity > st.last_best_bid_qty - tick_volume
              THEN st.hidden_buy_order_refill_count + 1
              ELSE st.hidden_buy_order_refill_count
    ELSE st.hidden_buy_order_refill_count

\* enrich_tick: the EnrichedTick returned, and the instrument's state after
\* it. Of the stored last_tick only last_price and volume_traded are read
\* again, so only these are carried.
EnrichTick(tick) ==
    LET st == instrument_state
        tick_volume == TickVolume(tick, st)
        trade_sign == ClassifyTradeSign(tick, st)
        sellRefill == SellRefillAfter(tick, tick_volume, trade_sign, st)
        buyRefill == BuyRefillAfter(tick, tick_volume, trade_sign, st)
        absorb == HasBuy(tick) /\ HasSell(tick) /\ tick_volume > 0
    IN  /\ enrTicks < MaxEnrTicks
        /\ UNCHANGED <<aggVars, alertVars, pipeVars, divVars, stratVars, batchVars>>
        /\ enriched_tick' =
              [last_price |-> tick.last_price,
               volume_traded |-> tick.volume_traded,
               depth |-> tick.depth,
               present |-> TRUE,
               tick_volume |-> tick_volume,
               trade_sign |-> trade_sign,
               is_large_trade |-> IsLargeTrade(tick_volume, st),
               is_sell_absorption |->
                   (absorb /\ sellRefill >= ICEBERG_CONFIRMATION_THRESHOLD),
               is_buy_absorption |->
                   (absorb /\ buyRefill >= ICEBERG_CONFIRMATION_THRESHOLD)]
        /\ instrument_state' =
              [st EXCEPT
                 !.last_tick = [last_price |-> tick.last_price,
                                volume_traded |-> tick.volume_traded,
                                present |-> TRUE],
                 !.last_trade_sign = trade_sign,
                 !.trade_volume_window = WindowAfter(tick_volume, st),
                 !.hidden_sell_order_refill_count = sellRefill,
                 !.hidden_buy_order_refill_count = buyRefill,
                 !.last_best_bid_price = IF HasBuy(tick) THEN tick.depth.buy[1].price ELSE @,
                 !.last_best_bid_qty = IF HasBuy(tick) THEN tick.depth.buy[1].quantity ELSE @,
                 !.last_best_ask_price = IF HasSell(tick) THEN tick.depth.sell[1].price ELSE @,
                 !.last_best_ask_qty = IF HasSell(tick) THEN tick.depth.sell[1].quantity ELSE @]
        /\ enrTicks' = enrTicks + 1

\* The instrument's state exists from the start: load_thresholds creates it
\* with the pre-calculated threshold or with none.
InitEnr ==
    /\ instrument_state \in {NewInstrumentState(thr) : thr \in {Inf} \cup Thresholds}
    /\ enriched_tick = NoTick
    /\ enrTicks = 0

\* The enricher when it is not the component under study.
IdleEnr ==
    /\ instrument_state = NewInstrumentState(Inf)
    /\ enriched_tick = NoTick
    /\ enrTicks = 0

\* One enrich_tick call with any tick of the input domain.
NextEnr == \E tick \in EnrTickInputs : EnrichTick(tick)

\* Ticks around one book: best bid 1, best ask 3 (or an ask that stepped down
\* to 2), with displayed quantities that either stay or fall, and books that
\* show one side only.
AbsorbDepths ==
    {[present |-> TRUE, buy |-> <<[price |-> 1, quantity |-> 3]>>,
                        sell |-> <<[price |-> 3, quantity |-> 3]>>],
     [present |-> TRUE, buy |-> <<[price |-> 1, quantity |-> 1]>>,
                        sell |-> <<[price |-> 3, quantity |-> 1]>>],
     [present |-> TRUE, buy |-> <<[price |-> 1, quantity |-> 3]>>,
                        sell |-> <<[price |-> 2, quantity |-> 3]>>],
     [present |-> TRUE, buy |-> <<>>,
                        sell |-> <<[price |-> 3, quantity |-> 3]>>],
     [present |-> TRUE, buy |-> <<[price |-> 1, quantity |-> 3]>>,
                        sell |-> <<>>]}

AbsorbTickInputs ==
    [last_price : {1, 3}, volume_traded : CumVolumes, depth : AbsorbDepths]

NextAbsorb == \E tick \in AbsorbTickInputs : EnrichTick(tick)

(***************************************************************************)
(*                 AlertEngine, one (stock, interval) key                  *)
(***************************************************************************)

\* s_cfg.COST_REGIME_THRESHOLD and s_cfg.PATH_REGIME_THRESHOLD, times 100.
COST_REGIME_THRESHOLD == 25
PATH_REGIME_THRESHOLD == 25
\* maxlen of the two regime deques.
REGIME_MAXLEN == 3

\* Raw sensor samples, times 100: below -threshold and above the threshold.
Samples == {-30, 30}
\* The same with the two thresholds themselves.
RegimeSamples == {-30, -25, 25, 30}
\* Bar prices.
BarPrices == {1, 2, 3}
Acceptances == {-1, 0, 1}

\* run_logic's read of the ACCEPTANCE sensor from a bar of the aggregator:
\* raw_scores.get("price_acceptance", 0).
AcceptanceOf(b) ==
    IF "price_acceptance" \in DOMAIN b THEN b.price_acceptance ELSE 0

\* run_logic's read of the PATH sensor from a bar of the aggregator, times
\* 100: raw_scores.get('structure_ratio', 0.0).
StructureRatioOf(b) ==
    IF "structure_ratio" \in DOMAIN b THEN b.structure_ratio ELSE 0

\* A finalized bar as run_logic reads it. The bars of one key arrive with
\* increasing timestamps: the bar's timestamp is its number in the session.
BarInputs ==
    {b \in [high : BarPrices, low : BarPrices, close : BarPrices,
            raw_cost : Samples, raw_path : Samples, accept : Acceptances] :
        b.low <= b.close /\ b.close <= b.high}

\* What is kept of the bar last processed: its timestamp and sensor readings.
NoBarSeen == [timestamp |-> 0, raw_cost |-> 0, raw_path |-> 0, accept |-> 0]

\* The trade state self.states.setdefault creates, and an exit resets to.
FlatState == [position |-> "NONE", entry_price |-> 0, peak_price |-> 0, mae_price |-> 0]

\* A regime that also counts a sample equal to the threshold.
MutUpdateRegime(hist, threshold) ==
    IF Len(hist) < REGIME_MAXLEN THEN 0
    ELSE IF \A i \in DOMAIN hist : hist[i] >= threshold THEN 1
    ELSE IF \A i \in DOMAIN hist : hist[i] <= -threshold THEN -1
    ELSE 0

\* _update_regime, after hist.append(value): hist is the deque with the new
\* sample in it.
UpdateRegime(hist, threshold) ==
    IF Len(hist) < REGIME_MAXLEN THEN 0
    ELSE IF \A i \in DOMAIN hist : hist[i] > threshold THEN 1
    ELSE IF \A i \in DOMAIN hist : hist[i] < -threshold THEN -1
    ELSE 0

\* A monitor that does not track the bar's extremes.
MutMonitor(st, b) == st

\* A monitor that tracks the favourable side only.
MutMonitorPeak(st, b) ==
    IF st.position = "LONG"
    THEN [st EXCEPT !.peak_price = Max(st.peak_price, b.high)]
    ELSE IF st.position = "SHORT"
    THEN [st EXCEPT !.peak_price = Min(st.peak_price, b.low)]
    ELSE st

\* run_logic, live trade monitoring: peak and adverse price of an open trade.
Monitor(st, b) ==
    IF st.position = "LONG"
    THEN [st EXCEPT !.peak_price = Max(st.peak_price, b.high),
                    !.mae_price = Min(st.mae_price, b.low)]
    ELSE IF st.position = "SHORT"
    THEN [st EXCEPT !.peak_price = Min(st.peak_price, b.low),
                    !.mae_price = Max(st.mae_price, b.high)]
    ELSE st

\* A long entry that ignores the PATH regime.
MutLongEntryCond(cost, path, accept) == cost = 1 /\ accept = 1

\* run_logic, the entry and exit conditions.
LongEntryCond(cost, path, accept) == cost = 1 /\ accept = 1 /\ path # -1
ShortEntryCond(cost, path, accept) == cost = -1 /\ accept = -1 /\ path # 1
LongExitCond(cost, path) == cost < 1 \/ path < 0
ShortExitCond(cost, path) == cost > -1 \/ path > 0

\* The entry time a trade state holds: state.get('entry_time').
EntryTimeOf(st) == IF "entry_time" \in DOMAIN st THEN st.entry_time ELSE None

\* run_logic, the state an entry writes.
EntryState(side, b) ==
    [position |-> side, entry_price |-> b.close,
     peak_price |-> IF side = "LONG" THEN b.high ELSE b.low,
     mae_price |-> IF side = "LONG" THEN b.low ELSE b.high]

\* db_writer.log_signal_event, the signal sink: it stores the event and returns
\* (TRUE), or it raises (FALSE).
SinkOutcomes == BOOLEAN

\* No report: mfe, mae, pnl are None.
NoFrac == <<0, 0>>

\* _fire_alert: the event_data built for event_type from bar b and state st.
\* mfe, mae and pnl are fractions <<numerator, denominator>>.
EventData(b, event_type, cost, path, accept, st) ==
    LET is_exit == event_type \in {"LONG_EXIT", "SHORT_EXIT"}
        long == event_type \in {"LONG_ENTRY", "LONG_EXIT"}
        report == is_exit /\ st.entry_price > 0
        entry == st.entry_price
    IN  [event_time |-> b.timestamp,
         event_type |-> event_type,
         side |-> IF long THEN "LONG" ELSE "SHORT",
         price |-> b.close,
         cost_regime |-> cost,
         path_regime |-> path,
         accept_regime |-> accept,
         entry_price |-> IF is_exit THEN st.entry_price ELSE b.close,
         peak_price |-> IF is_exit THEN st.peak_price ELSE b.high,
         mfe |-> IF ~report THEN NoFrac
                 ELSE IF long THEN <<st.peak_price - entry, entry>>
                 ELSE <<entry - st.peak_price, entry>>,
         mae |-> IF ~report THEN NoFrac
                 ELSE IF long THEN <<st.mae_price - entry, entry>>
                 ELSE <<entry - st.mae_price, entry>>,
         pnl |-> IF ~report THEN NoFrac
                 ELSE IF long THEN <<b.close - entry, entry>>
                 ELSE <<entry - b.close, entry>>]

\* The regime deques after run_logic appended the bar's two samples.
HistAfter(b) ==
    [cost |-> DequeAppend(regime_hist.cost, b.raw_cost, REGIME_MAXLEN),
     path |-> DequeAppend(regime_hist.path, b.raw_path, REGIME_MAXLEN)]

CostOf(b) == UpdateRegime(HistAfter(b).cost, COST_REGIME_THRESHOLD)
PathOf(b) == UpdateRegime(HistAfter(b).path, PATH_REGIME_THRESHOLD)

\* What every run_logic call does before the alert logic: the bar is taken,
\* the sensors are sampled and the regimes computed.
Sense(b) ==
    /\ ~sessionOver
    /\ barNo < MaxBars
    /\ bar' = [timestamp |-> b.timestamp, raw_cost |-> b.raw_cost,
               raw_path |-> b.raw_path, accept |-> b.accept]
    /\ barNo' = barNo + 1
    /\ regime_hist' = HistAfter(b)
    /\ cost_regime' = CostOf(b)
    /\ path_regime' = PathOf(b)
    /\ prev_position' = state.position
    /\ UNCHANGED <<sessionOver, aggVars, enrVars, pipeVars, divVars, stratVars, batchVars>>

\* The side run_logic enters on bar b ("NONE": no entry).
EntrySide(b) ==
    IF LongEntryCond(CostOf(b), PathOf(b), b.accept) THEN "LONG"
    ELSE IF ShortEntryCond(CostOf(b), PathOf(b), b.accept) THEN "SHORT"
    ELSE "NONE"

\* Whether run_logic exits the open position on bar b.
ExitNow(b) ==
    \/ state.position = "LONG" /\ LongExitCond(CostOf(b), PathOf(b))
    \/ state.position = "SHORT" /\ ShortExitCond(CostOf(b), PathOf(b))

\* The extremes of the bars of the trade that is open when bar b arrives,
\* with bar b.
Extremes(b) ==
    /\ tradeHigh' = IF state.position = "NONE" THEN 0 ELSE Max(tradeHigh, b.high)
    /\ tradeLow' = IF state.position = "NONE" THEN 0 ELSE Min(tradeLow, b.low)

\* run_logic on a bar that triggers no alert: only the monitoring acts.
RunLogicQuiet(b) ==
    /\ IF state.position = "NONE" THEN EntrySide(b) = "NONE" ELSE ~ExitNow(b)
    /\ Sense(b)
    /\ state' = Monitor(state, b)
    /\ fired' = <<>>
    /\ sink_ok' = TRUE
    /\ Extremes(b)
    /\ UNCHANGED <<openEntry, entryBar>>

\* run_logic on a bar that enters: the state is written, then _fire_alert
\* builds the event and hands it to the signal sink, which accepts it
\* (sink_ok) or raises.
RunLogicEntry(b) ==
    /\ state.position = "NONE"
    /\ EntrySide(b) # "NONE"
    /\ Sense(b)
    /\ state' = EntryState(EntrySide(b), b)
    /\ fired' = <<EventData(b, IF EntrySide(b) = "LONG" THEN "LONG_ENTRY" ELSE "SHORT_ENTRY",
                            CostOf(b), PathOf(b), b.accept, state')>>
    /\ sink_ok' \in SinkOutcomes
    /\ openEntry' = EntrySide(b)
    /\ entryBar' = b.timestamp
    /\ tradeHigh' = b.high
    /\ tradeLow' = b.low

\* run_logic on a bar that exits: _fire_alert builds the report from the
\* monitored state and hands it to the signal sink; the state is reset after
\* the sink returned, and left as monitored when the sink raised.
RunLogicExit(b) ==
    /\ ExitNow(b)
    /\ Sense(b)
    /\ fired' = <<EventData(b, IF state.position = "LONG" THEN "LONG_EXIT" ELSE "SHORT_EXIT",
                            CostOf(b), PathOf(b), b.accept, Monitor(state, b))>>
    /\ sink_ok' \in SinkOutcomes
    /\ state' = IF sink_ok' THEN FlatState ELSE Monitor(state, b)
    /\ openEntry' = "NONE"
    /\ Extremes(b)
    /\ UNCHANGED entryBar

\* The session ends: no further finalized bar reaches the engine.
EndSession ==
    /\ ~sessionOver
    /\ sessionOver' = TRUE
    /\ UNCHANGED <<state, regime_hist, cost_regime, path_regime, bar, prev_position,
                   fired, sink_ok, openEntry, entryBar, tradeHigh, tradeLow, barNo,
                   aggVars, enrVars, pipeVars, divVars, stratVars, batchVars>>

InitAlert ==
    /\ state = FlatState
    /\ regime_hist = [cost |-> <<>>, path |-> <<>>]
    /\ cost_regime = 0
    /\ path_regime = 0
    /\ bar = NoBarSeen
    /\ prev_position = "NONE"
    /\ fired = <<>>
    /\ sink_ok = TRUE
    /\ openEntry = "NONE"
    /\ entryBar = 0
    /\ tradeHigh = 0
    /\ tradeLow = 0
    /\ barNo = 0
    /\ sessionOver = FALSE

\* The next finalized bar of the key: bar contents b under the next timestamp.
Stamped(b) ==
    [timestamp |-> barNo + 1, high |-> b.high, low |-> b.low, close |-> b.close,
     raw_cost |-> b.raw_cost, raw_path |-> b.raw_path, accept |-> b.accept]

\* The sensor stage of run_logic alone, on samples around the thresholds: the
\* two deques and the two regimes of a key whose bars trigger no alert.
SenseOnly(raw_cost, raw_path) ==
    LET b == Stamped([high |-> 1, low |-> 1, close |-> 1, raw_cost |-> raw_cost,
                      raw_path |-> raw_path, accept |-> 0])
    IN  /\ Sense(b)
        /\ UNCHANGED <<state, fired, sink_ok, openEntry, entryBar, tradeHigh, tradeLow>>

NextRegime ==
    \E raw_cost \in RegimeSamples, raw_path \in RegimeSamples : SenseOnly(raw_cost, raw_path)

\* One run_logic call on the next finalized bar of the key, or the end of
\* the session.
NextAlert ==
    \/ \E b \in BarInputs : RunLogicQuiet(Stamped(b))
    \/ \E b \in BarInputs : RunLogicEntry(Stamped(b))
    \/ \E b \in BarInputs : RunLogicExit(Stamped(b))
    \/ EndSession

\* Each specification starts the component it studies in every state its
\* construction allows, and the other two in their state after construction.
\* ---- DataPipeline: processor_and_writer_coroutine ----

\* The intervals the processor walks through for every tick, in this order
\* (the first two of the configured ones).
PIPE_INTERVALS == <<1, 3>>

\* A tick as the pipeline sees it: its time, and sense, whether the sensors of
\* the bar this tick closes make the signal engine act on that bar (the
\* sensors are the aggregator's and the engine's business, studied apart).
PipeTickInputs == [timestamp : TickTimes, sense : BOOLEAN]

RECURSIVE Chronological(_)
Chronological(ticks) ==
    Len(ticks) < 2
    \/ /\ ticks[1].timestamp <= ticks[2].timestamp
       /\ Chronological(Tail(ticks))

\* The tick streams a data source can deliver.
PipeSources ==
    {ticks \in [1..MaxPipeTicks -> PipeTickInputs] : Chronological(ticks)}

\* The ticks of the streams that are replayed twice: one tick per minute, the
\* first one without effect on the engine.
ReplayTickInputs ==
    {[timestamp |-> 3550, sense |-> FALSE],
     [timestamp |-> 3610, sense |-> TRUE],
     [timestamp |-> 3670, sense |-> TRUE]}

ReplaySources ==
    {ticks \in [1..MaxPipeTicks -> ReplayTickInputs] : Chronological(ticks)}

NoBuilding == [timestamp |-> None, sense |-> FALSE]

\* A run of the pipeline before its first tick.
FreshPipeline ==
    [raw_tick_queue |-> <<>>,     \* self.raw_tick_queue
     produced |-> 0,              \* ticks the data source has put on the queue
     consumed |-> 0,              \* task_done calls
     aggregators |-> [i \in 1..Len(PIPE_INTERVALS) |-> NoBuilding],
     tick_batch |-> <<>>,
     bar_batch |-> <<>>,
     tick_sink |-> <<>>,          \* ticks batch_insert_ticks wrote
     bar_sink |-> <<>>,           \* bars batch_upsert_features wrote
     depth_sink |-> <<>>,         \* ticks whose depth batch_insert_order_depths wrote
     batched |-> <<>>,            \* bars appended to bar_batch, in order
     returned |-> <<>>,           \* bars add_tick returned, in order
     appended |-> <<>>,           \* finalized bars appended to bar_batch, in order
     logic_calls |-> <<>>,        \* bars run_logic was called with, in order
     events |-> <<>>,             \* signal events the sink accepted, in order
     trade |-> <<>>,              \* bars on which the engine changed the trade state
     raised |-> FALSE,            \* the last tick's processing ended in the except clause
     dispatched |-> [i \in 1..Len(PIPE_INTERVALS) |-> 0],  \* add_tick calls per interval
     shutdown |-> FALSE,          \* self._shutdown_event is set
     terminated |-> FALSE]        \* the processor coroutine has left its loop

\* A queue read that takes the newest message.
MutQueueGet(q) == q[Len(q)]

\* raw_tick_queue.get(): the oldest message.
QueueGet(q) == Head(q)

\* What is left on the queue after QueueGet.
QueueRest(q) == Tail(q)

\* The data source puts its next tick on the queue.
Produce(r) ==
    /\ ~pipeline[r].shutdown
    /\ pipeline[r].produced < Len(source)
    /\ pipeline' = [pipeline EXCEPT
                      ![r].produced = @ + 1,
                      ![r].raw_tick_queue = Append(@, source[pipeline[r].produced + 1])]
    /\ UNCHANGED <<source, signal_sink_up, aggVars, enrVars, alertVars, divVars, stratVars, batchVars>>

\* A rollover on every tick that finds a building bar.
MutRolledOver(agg, bucket) == agg # NoBuilding

\* add_tick's rollover test: there is a building bar and the tick's bucket is
\* not the building bar's.
RolledOver(agg, bucket) == agg # NoBuilding /\ agg.timestamp # bucket

\* A strategy call on the bar that is still building, on every tick.
MutStrategyBars(finalized_bar, building, rolled) == <<building>>

\* The bars run_logic is called with in one pass of the interval loop: the bar
\* add_tick returned, if it returned one.
StrategyBars(finalized_bar, building, rolled) ==
    IF rolled THEN <<finalized_bar>> ELSE <<>>

\* The loop over the intervals for one enriched tick, from the i-th interval
\* on: add_tick; on a returned bar run_logic, then the append of the bar; the
\* append of the building bar. run_logic changes the trade state and writes
\* its event when the bar's sensors say so; a signal sink that is down makes
\* that write raise, which ends the processing of the tick.
RECURSIVE IntervalLoop(_, _, _)
IntervalLoop(p, tick, i) ==
    IF i > Len(PIPE_INTERVALS) THEN p
    ELSE
    LET interval == PIPE_INTERVALS[i]
        agg == p.aggregators[i]
        bucket == BucketStart(tick.timestamp, interval)
        rolled == RolledOver(agg, bucket)
        finalized_bar == [interval |-> interval, timestamp |-> agg.timestamp,
                          sense |-> agg.sense, final |-> TRUE]
        building_bar_now == [interval |-> interval, timestamp |-> bucket,
                             sense |-> tick.sense, final |-> FALSE]
        afterAdd == [p EXCEPT
                       !.aggregators[i] = [timestamp |-> bucket, sense |-> tick.sense],
                       !.dispatched[i] = @ + 1,
                       !.returned = IF rolled THEN Append(@, finalized_bar) ELSE @]
        calls == StrategyBars(finalized_bar, building_bar_now, rolled)
        afterLogic == IF calls # <<>>
                      THEN [afterAdd EXCEPT
                              !.logic_calls = Append(@, calls[1]),
                              !.trade = IF calls[1].sense
                                        THEN Append(@, calls[1]) ELSE @,
                              !.events = IF calls[1].sense /\ signal_sink_up
                                         THEN Append(@, calls[1]) ELSE @,
                              !.raised = calls[1].sense /\ ~signal_sink_up]
                      ELSE afterAdd
        afterAppend == [afterLogic EXCEPT
                          !.bar_batch = Append(IF rolled THEN Append(@, finalized_bar) ELSE @,
                                               building_bar_now),
                          !.batched = Append(IF rolled THEN Append(@, finalized_bar) ELSE @,
                                             building_bar_now),
                          !.appended = IF rolled THEN Append(@, finalized_bar) ELSE @]
    IN  IF afterLogic.raised THEN afterLogic
        ELSE IntervalLoop(afterAppend, tick, i + 1)

\* What the batch write of a tick's processing comes to: the flush condition
\* does not hold, the batches are written, or one of the three writes fails.
FlushOutcomes == {"not_due", "written", "ticks_failed", "depths_failed", "bars_failed"}

\* Step 3 of the processor: the batch write. batch_insert_ticks and
\* batch_upsert_features raise when their write fails; batch_insert_order_depths
\* logs the failure and returns, and tick_batch is cleared after it. Every
\* tick carries its order depth.
Flush(p, flush) ==
    IF flush = "not_due" THEN p
    ELSE IF flush = "ticks_failed" /\ p.tick_batch # <<>>
    THEN [p EXCEPT !.raised = TRUE]
    ELSE LET afterTicks == [p EXCEPT !.tick_sink = @ \o p.tick_batch,
                                     !.depth_sink = IF flush = "depths_failed" THEN @
                                                    ELSE @ \o p.tick_batch,
                                     !.tick_batch = <<>>]
         IN  IF flush = "bars_failed" /\ p.bar_batch # <<>>
             THEN [afterTicks EXCEPT !.raised = TRUE]
             ELSE [afterTicks EXCEPT !.bar_sink = @ \o p.bar_batch,
                                     !.bar_batch = <<>>]

\* An exception that ends the processor coroutine.
MutAfterException(p) == [p EXCEPT !.terminated = TRUE]

\* The except clause of the processor: the error is logged and the loop goes
\* on with the next message.
AfterException(p) == p

\* The processor is in its loop and its queue read returns a message.
CanProcess(r) ==
    /\ ~pipeline[r].shutdown
    /\ ~pipeline[r].terminated
    /\ pipeline[r].raw_tick_queue # <<>>

\* One pass of the processor loop with a message on the queue: the tick is
\* taken, enriched and put on the tick batch, walked through the intervals,
\* the batches are written if due; an exception on the way is logged;
\* task_done in any case.
ProcessTick(r, flush) ==
    /\ CanProcess(r)
    /\ LET p == pipeline[r]
           tick == QueueGet(p.raw_tick_queue)
           taken == [p EXCEPT !.raw_tick_queue = QueueRest(@),
                              !.tick_batch = Append(@, tick),
                              !.raised = FALSE]
           looped == IntervalLoop(taken, tick, 1)
           flushed == IF looped.raised THEN looped ELSE Flush(looped, flush)
           handled == IF flushed.raised THEN AfterException(flushed) ELSE flushed
       IN  pipeline' = [pipeline EXCEPT ![r] = [handled EXCEPT !.consumed = @ + 1]]
    /\ UNCHANGED <<source, signal_sink_up, aggVars, enrVars, alertVars, divVars, stratVars, batchVars>>

\* run() leaves its wait, on the end of the data source and of the queue or on
\* an interrupt at any moment, and sets the shutdown event; the data source
\* is closed.
Shutdown(r) ==
    /\ ~pipeline[r].shutdown
    /\ pipeline' = [pipeline EXCEPT ![r].shutdown = TRUE]
    /\ UNCHANGED <<source, signal_sink_up, aggVars, enrVars, alertVars, divVars, stratVars, batchVars>>

\* The processor finds the shutdown event set at the head of its loop and
\* returns; tick_batch and bar_batch are locals of the coroutine and stay as
\* they are.
Terminate(r) ==
    /\ pipeline[r].shutdown
    /\ ~pipeline[r].terminated
    /\ pipeline' = [pipeline EXCEPT ![r].terminated = TRUE]
    /\ UNCHANGED <<source, signal_sink_up, aggVars, enrVars, alertVars, divVars, stratVars, batchVars>>

\* The pipeline when it is not the component under study.
IdlePipe ==
    /\ source = <<>>
    /\ signal_sink_up = TRUE
    /\ pipeline = [r \in {1} |-> FreshPipeline]

\* One run of the pipeline on any tick stream, with a signal sink that is up
\* or down.
InitPipe ==
    /\ source \in PipeSources
    /\ signal_sink_up \in BOOLEAN
    /\ pipeline = [r \in {1} |-> FreshPipeline]

\* Two runs of the pipeline on the same tick stream with the same signal sink.
InitReplay ==
    /\ source \in ReplaySources
    /\ signal_sink_up \in BOOLEAN
    /\ pipeline = [r \in {1, 2} |-> FreshPipeline]

NextPipe ==
    \/ \E r \in DOMAIN pipeline : Produce(r)
    \/ \E r \in DOMAIN pipeline, flush \in FlushOutcomes : ProcessTick(r, flush)
    \/ \E r \in DOMAIN pipeline : Shutdown(r)
    \/ \E r \in DOMAIN pipeline : Terminate(r)

\* A replay differs from another replay of the same stream in when the data
\* source and the processor run and in when the batch write is due.
FlushTimings == {"not_due", "written"}

NextReplay ==
    \/ \E r \in DOMAIN pipeline : Produce(r)
    \/ \E r \in DOMAIN pipeline, flush \in FlushTimings : ProcessTick(r, flush)

\* ---- PatternDetector: calculate_scores ----

\* Longest bar history a call is made with.
MaxDivBars == 2

\* The lookback limits, in minutes.
COMPOSITE_FEATURE_LOOKBACK_MIN == 30
MIN_LOOKBACK_MIN == 5
DIVERGENCE_MULTIPLIER == 2

\* Bars of the 5-minute interval.
DivIntervalMinutes == 5

\* A bar as the aggregator hands it to calculate_scores: close and volume,
\* and the raw_scores _recalculate_bar_features has set by then.
DivBars == [close : {1, 2}, volume : {0, 2}, cvd_5m : {0, 1}, obv : {0, 2}]

DivHistories == UNION {[1..n -> DivBars] : n \in 0..MaxDivBars}

\* calculate_scores returned the empty dict.
NoScores == [computed |-> FALSE]

\* raw_scores.get('cvd_5m_smoothed', 0)
CvdOf(b) == IF "cvd_5m_smoothed" \in DOMAIN b THEN b.cvd_5m_smoothed ELSE 0

\* raw_scores.get('obv', 0)
ObvOf(b) == IF "obv" \in DOMAIN b THEN b.obv ELSE 0

RECURSIVE WindowVolume(_)
WindowVolume(bars) ==
    IF bars = <<>> THEN 0 ELSE bars[1].volume + WindowVolume(Tail(bars))

\* _calculate_divergence_score on two fractions with positive denominators;
\* the score is a fraction too.
CalculateDivergenceScore(primary_change, secondary_change) ==
    LET den == primary_change[2] * secondary_change[2]
        bullish == secondary_change[1] * primary_change[2]
                     - primary_change[1] * DIVERGENCE_MULTIPLIER * secondary_change[2]
        bearish == 0 - bullish
    IN  IF bullish > 0
        THEN IF bullish * 10 >= den THEN <<1, 1>> ELSE <<bullish * 10, den>>
        ELSE IF bearish > 0
        THEN IF bearish * 10 >= den THEN <<-1, 1>> ELSE <<0 - bearish * 10, den>>
        ELSE <<0, 1>>

\* calculate_scores, for price, CVD and OBV: the changes over the lookback
\* window as fractions <<numerator, denominator>>, and their scores.
CalculateScores(current_bar, bar_history_) ==
    LET n == Len(bar_history_)
        duration == n * DivIntervalMinutes
        capped == Min(duration, COMPOSITE_FEATURE_LOOKBACK_MIN)
        lookback_bars == capped \div DivIntervalMinutes
    IN  IF duration < MIN_LOOKBACK_MIN \/ n < lookback_bars THEN NoScores
        ELSE
        LET start_bar == bar_history_[n - lookback_bars + 1]
            window == SubSeq(bar_history_, n - lookback_bars + 1, n)
            volume_in_window == IF WindowVolume(window) = 0 THEN 1
                                ELSE WindowVolume(window)
            price_change == <<current_bar.close - start_bar.close, start_bar.close>>
            cvd_change == <<CvdOf(current_bar) - CvdOf(start_bar), volume_in_window>>
            obv_change == <<ObvOf(current_bar) - ObvOf(start_bar), volume_in_window>>
        IN  IF start_bar.close = 0 THEN NoScores
            ELSE [computed |-> TRUE,
                  start_bar |-> start_bar,
                  volume_in_window |-> volume_in_window,
                  cvd_change |-> cvd_change,
                  obv_change |-> obv_change,
                  price_vs_cvd |-> CalculateDivergenceScore(price_change, cvd_change),
                  price_vs_obv |-> CalculateDivergenceScore(price_change, obv_change)]

\* _recalculate_bar_features calls calculate_scores for the building bar.
Scores ==
    /\ divCalls = 0
    /\ div_scores' = CalculateScores(div_bar, div_history)
    /\ divCalls' = 1
    /\ UNCHANGED <<div_bar, div_history, aggVars, enrVars, alertVars, pipeVars, stratVars, batchVars>>

\* No call is studied.
IdleDiv ==
    /\ div_bar = [close |-> 1, volume |-> 0, cvd_5m |-> 0, obv |-> 0]
    /\ div_history = <<>>
    /\ div_scores = NoScores
    /\ divCalls = 0

\* Any building bar over any history.
InitDiv ==
    /\ div_bar \in DivBars
    /\ div_history \in DivHistories
    /\ div_scores = NoScores
    /\ divCalls = 0

NextDiv == Scores

\* ---- StrategyEngine ----

\* Bars handed to run_logic in one run.
MaxStratBars == 4

\* common/strategy_config.py, ratios in hundredths.
PATH_CHOP_THRESHOLD == 15
COST_EXIT_THRESHOLD == 0
PRESSURE_ENTRY_THRESHOLD == 35
PRESSURE_EXIT_THRESHOLD == 75
\* STOP_LOSS_PCT in thousandths of the price.
STOP_LOSS_PER_MILLE == 3
REGIME_INTERVAL == "10m"
TIMING_INTERVAL == "5m"

\* The margin _check_hard_stop adds to PATH_CHOP_THRESHOLD, in hundredths.
VETO_MARGIN == 5

\* The state run_logic creates for a stock it has not seen. stop_price is in
\* thousandths of a price unit, the other prices in units.
FreshState ==
    [regime |-> "NO_TRADE", position |-> "NONE", entry_price |-> 0,
     entry_time |-> None, stop_price |-> 0, path_5m |-> 0, cost_5m |-> 0,
     pressure_3m |-> 0]

\* Finalized bars: the close, and the raw_scores the engine reads, in
\* hundredths. The values of price_vs_vwap and price_vs_obv make their mean
\* a whole number of hundredths.
StrategyBarInputs ==
    [interval : {REGIME_INTERVAL, TIMING_INTERVAL, "1m"},
     close : {1, 2},
     structure_ratio : {-30, 0, 18, 30},
     price_vs_vwap : {-40, 40},
     price_vs_obv : {-40, 40},
     price_vs_clv : {-80, 40, 80}]

\* A handler that emitted nothing.
Held(st) == [st |-> st, events |-> <<>>, raised |-> FALSE]

\* _handle_exit: update_signal_exit is guarded and log_event catches its own
\* errors, so the EXIT event is emitted and the position reset in every case.
HandleExit(st, reason) ==
    [st |-> [st EXCEPT !.position = "NONE", !.entry_time = None],
     events |-> <<[event |-> "EXIT", side |-> st.position, reason |-> reason]>>,
     raised |-> FALSE]

\* _check_5m_exits
Check5mExits(st) ==
    IF \/ st.position = "LONG" /\ st.cost_5m < COST_EXIT_THRESHOLD
       \/ st.position = "SHORT" /\ st.cost_5m > COST_EXIT_THRESHOLD
    THEN HandleExit(st, "COST_FLIP")
    ELSE IF 0 - PATH_CHOP_THRESHOLD < st.path_5m /\ st.path_5m < PATH_CHOP_THRESHOLD
    THEN HandleExit(st, "TREND_BREAK")
    ELSE Held(st)

\* _process_regime
ProcessRegime(st, b) ==
    LET sensed == [st EXCEPT !.path_5m = b.structure_ratio,
                             !.cost_5m = (b.price_vs_vwap + b.price_vs_obv) \div 2]
        regime == IF sensed.path_5m > PATH_REGIME_THRESHOLD
                     /\ sensed.cost_5m > COST_REGIME_THRESHOLD THEN "BULL"
                  ELSE IF sensed.path_5m < 0 - PATH_REGIME_THRESHOLD
                     /\ sensed.cost_5m < 0 - COST_REGIME_THRESHOLD THEN "BEAR"
                  ELSE "NO_TRADE"
        decided == [sensed EXCEPT !.regime = regime]
    IN  IF decided.position # "NONE" THEN Check5mExits(decided) ELSE Held(decided)

\* _check_entries: the state is written before insert_signal, which is not
\* guarded; when it raises the ENTRY event is not emitted.
CheckEntries(st, b, db_ok) ==
    LET side == IF st.regime = "BULL" /\ st.pressure_3m < 0 - PRESSURE_ENTRY_THRESHOLD
                THEN "LONG"
                ELSE IF st.regime = "BEAR" /\ st.pressure_3m > PRESSURE_ENTRY_THRESHOLD
                THEN "SHORT" ELSE "NONE"
        stop == IF side = "LONG" THEN b.close * (1000 - STOP_LOSS_PER_MILLE)
                ELSE b.close * (1000 + STOP_LOSS_PER_MILLE)
        entered == [st EXCEPT !.stop_price = stop, !.position = side,
                              !.entry_price = b.close, !.entry_time = b.timestamp]
    IN  IF side = "NONE" THEN Held(st)
        ELSE IF ~db_ok THEN [st |-> entered, events |-> <<>>, raised |-> TRUE]
        ELSE [st |-> entered,
              events |-> <<[event |-> "ENTRY", side |-> side,
                            reason |-> "REGIME_ALIGN_PULLBACK"]>>,
              raised |-> FALSE]

\* _check_hard_stop: price_hit
PriceHit(st, b) ==
    \/ st.position = "LONG" /\ b.close * 1000 <= st.stop_price
    \/ st.position = "SHORT" /\ b.close * 1000 >= st.stop_price

\* _check_hard_stop: the structural veto
Vetoed(st) ==
    \/ st.position = "LONG" /\ st.path_5m > PATH_CHOP_THRESHOLD + VETO_MARGIN
    \/ st.position = "SHORT" /\ st.path_5m < 0 - (PATH_CHOP_THRESHOLD + VETO_MARGIN)

\* _check_3m_exits
Check3mExits(st, b) ==
    IF st.position = "LONG" /\ b.price_vs_clv > 0
          /\ (b.price_vs_obv < 0 \/ b.price_vs_vwap < 0)
    THEN HandleExit(st, "DIVERGENCE_RESOLVED")
    ELSE IF st.position = "SHORT" /\ b.price_vs_clv < 0
          /\ (b.price_vs_obv > 0 \/ b.price_vs_vwap > 0)
    THEN HandleExit(st, "DIVERGENCE_RESOLVED")
    ELSE IF \/ st.position = "LONG" /\ b.price_vs_clv > PRESSURE_EXIT_THRESHOLD
            \/ st.position = "SHORT" /\ b.price_vs_clv < 0 - PRESSURE_EXIT_THRESHOLD
    THEN HandleExit(st, "PRESSURE_EXHAUSTION")
    ELSE Held(st)

\* _process_timing
ProcessTiming(st, b, db_ok) ==
    LET sensed == [st EXCEPT !.pressure_3m = b.price_vs_clv]
    IN  IF sensed.position = "NONE" THEN CheckEntries(sensed, b, db_ok)
        ELSE IF PriceHit(sensed, b) /\ ~Vetoed(sensed)
        THEN HandleExit(sensed, "STRUCTURAL_STOP_LOSS")
        ELSE Check3mExits(sensed, b)

\* run_logic: routes the bar by its interval.
StrategyRunLogic(st, b, db_ok) ==
    IF b.interval = REGIME_INTERVAL THEN ProcessRegime(st, b)
    ELSE IF b.interval = TIMING_INTERVAL THEN ProcessTiming(st, b, db_ok)
    ELSE Held(st)

\* The pipeline hands one finalized bar to run_logic; db_ok says whether
\* insert_signal, if called, succeeds.
StrategyBar(b, db_ok) ==
    /\ strategy_bar.timestamp < MaxStratBars
    /\ LET timed == b @@ [timestamp |-> strategy_bar.timestamp + 1]
           r == StrategyRunLogic(states, timed, db_ok)
       IN  /\ states' = r.st
           /\ strategy_bar' = [interval |-> b.interval, close |-> b.close,
                               timestamp |-> timed.timestamp]
           /\ strategy_events' = r.events
           /\ strategy_raised' = r.raised
           /\ last_event' = IF r.events = <<>> THEN last_event
                            ELSE r.events[Len(r.events)].event
    /\ UNCHANGED <<aggVars, enrVars, alertVars, pipeVars, divVars, batchVars>>

\* No bar has been handed to the engine.
InitStrat ==
    /\ states = FreshState
    /\ strategy_bar = [interval |-> "1m", close |-> 1, timestamp |-> 0]
    /\ strategy_events = <<>>
    /\ strategy_raised = FALSE
    /\ last_event = "NONE"

NextStrat == \E b \in StrategyBarInputs : \E db_ok \in BOOLEAN : StrategyBar(b, db_ok)

\* ---- DataPipeline.run in backtesting mode: batches and termination ----

\* Messages the file source delivers in one run, and the seconds the run is
\* followed for.
MaxBatchMsgs == 3
MaxBatchClock == 3

\* Batching configuration of DataPipeline.__init__.
tick_batch_size == 1000
bar_batch_size == 100
batch_interval == 2

\* The dequeue timeout of the processor loop, in seconds.
DEQUEUE_TIMEOUT == 1

\* Number of configured bar intervals: every tick appends that many building
\* bars to bar_batch.
BAR_INTERVAL_COUNT == 5

\* A message on the raw tick queue: one with a tick, one without data, one
\* whose tick makes the processing raise before anything is batched.
MessageKinds == {"tick", "no_data", "bad"}

BacktestSources == [1..MaxBatchMsgs -> MessageKinds]

\* The batch lengths a run is joined at: empty batches, or the batches left
\* by 19 ticks that arrived within the batch interval.
BatchStarts == {[tick_batch |-> 0, bar_batch |-> 0, oldest |-> None],
                [tick_batch |-> 19, bar_batch |-> 19 * BAR_INTERVAL_COUNT, oldest |-> 0]}

\* What the batch writes of a pass come to when they are due.
WriteOutcomes == {"written", "ticks_failed", "bars_failed"}

\* A finally clause that skips task_done for a message without data.
MutFinallyTaskDone(p, kind) ==
    IF kind = "no_data" THEN p
    ELSE [p EXCEPT !.task_done = @ + 1, !.unfinished = @ - 1]

\* finally: self.raw_tick_queue.task_done()
FinallyTaskDone(p, kind) ==
    [p EXCEPT !.task_done = @ + 1, !.unfinished = @ - 1]

\* Step 3 of a pass on batch lengths: the flush condition, the two writes and
\* last_write_time. A write that fails raises: what it was to write stays in
\* its batch and last_write_time is not set.
BatchWrite(p, write) ==
    IF \/ p.tick_batch >= tick_batch_size
       \/ p.bar_batch >= bar_batch_size
       \/ p.now - p.last_write_time >= batch_interval
    THEN IF write = "ticks_failed" /\ p.tick_batch > 0 THEN [p EXCEPT !.raised = TRUE]
         ELSE IF write = "bars_failed" /\ p.bar_batch > 0
         THEN [p EXCEPT !.tick_batch = 0, !.raised = TRUE]
         ELSE [p EXCEPT !.tick_batch = 0, !.bar_batch = 0, !.last_write_time = p.now]
    ELSE p

\* The file source puts its next message on the queue.
Put ==
    /\ ~processor.source_done
    /\ processor.produced < Len(backtest_source)
    /\ processor' = [processor EXCEPT
                       !.queue = Append(@, backtest_source[processor.produced + 1]),
                       !.produced = @ + 1,
                       !.unfinished = @ + 1]
    /\ UNCHANGED <<backtest_source, aggVars, enrVars, alertVars, pipeVars, divVars, stratVars>>

\* stream_ticks returns once its heap is empty.
CanFinishSource ==
    ~processor.source_done /\ processor.produced = Len(backtest_source)

FinishSource ==
    /\ CanFinishSource
    /\ processor' = [processor EXCEPT !.source_done = TRUE]
    /\ UNCHANGED <<backtest_source, aggVars, enrVars, alertVars, pipeVars, divVars, stratVars>>

\* The processor is in its loop and the queue read returns a message.
CanDequeue ==
    ~processor.shutdown /\ ~processor.ended /\ processor.queue # <<>>

\* One pass of the processor loop on a message, dt seconds after the last
\* pass; finalized is the number of bars add_tick returned for the tick.
Dequeue(dt, finalized, write) ==
    /\ CanDequeue
    /\ processor.now + dt <= MaxBatchClock
    /\ LET kind == Head(processor.queue)
           taken == [processor EXCEPT !.queue = Tail(@), !.dequeued = @ + 1,
                                      !.now = @ + dt, !.raised = FALSE,
                                      !.pass = kind]
           batched == [taken EXCEPT
                         !.tick_batch = @ + 1,
                         !.bar_batch = @ + BAR_INTERVAL_COUNT + finalized]
           handled == IF kind = "no_data" THEN taken
                      ELSE IF kind = "bad" THEN [taken EXCEPT !.raised = TRUE]
                      ELSE BatchWrite(batched, write)
           done == FinallyTaskDone(handled, kind)
       IN  processor' =
              [done EXCEPT !.oldest = IF done.tick_batch = 0 /\ done.bar_batch = 0
                                      THEN None
                                      ELSE IF @ = None THEN done.now ELSE @]
    /\ UNCHANGED <<backtest_source, aggVars, enrVars, alertVars, pipeVars, divVars, stratVars>>

\* The queue read times out: the loop goes back to its head.
DequeueTimeout ==
    /\ ~processor.shutdown
    /\ ~processor.ended
    /\ processor.queue = <<>>
    /\ processor.now + DEQUEUE_TIMEOUT <= MaxBatchClock
    /\ processor' = [processor EXCEPT !.now = @ + DEQUEUE_TIMEOUT,
                                      !.timeouts = @ + 1,
                                      !.pass = "timeout"]
    /\ UNCHANGED <<backtest_source, aggVars, enrVars, alertVars, pipeVars, divVars, stratVars>>

\* run(): the data source task is over and raw_tick_queue.join() returns.
CanJoin ==
    processor.source_done /\ ~processor.joined /\ processor.unfinished = 0

\* join() returns and the finally clause of run() sets the shutdown event.
Join ==
    /\ CanJoin
    /\ processor' = [processor EXCEPT !.joined = TRUE, !.shutdown = TRUE]
    /\ UNCHANGED <<backtest_source, aggVars, enrVars, alertVars, pipeVars, divVars, stratVars>>

\* The processor finds the shutdown event set at the head of its loop, or is
\* cancelled by run() a second later.
CanEnd == processor.shutdown /\ ~processor.ended

EndProcessor ==
    /\ CanEnd
    /\ processor' = [processor EXCEPT !.ended = TRUE]
    /\ UNCHANGED <<backtest_source, aggVars, enrVars, alertVars, pipeVars, divVars, stratVars>>

FreshProcessor(start) ==
    [queue |-> <<>>,            \* self.raw_tick_queue
     produced |-> 0,            \* messages put
     unfinished |-> 0,          \* the queue's count of unfinished tasks
     dequeued |-> 0,            \* messages the queue read returned
     task_done |-> 0,           \* task_done calls
     timeouts |-> 0,            \* queue reads that timed out
     tick_batch |-> start.tick_batch,   \* len(tick_batch)
     bar_batch |-> start.bar_batch,     \* len(bar_batch)
     oldest |-> start.oldest,   \* when the oldest batched item was appended
     now |-> 0,                 \* the event loop's clock, in seconds
     last_write_time |-> 0,
     raised |-> FALSE,          \* the last pass went through the except clause
     pass |-> "none",           \* what the last pass of the loop was on
     source_done |-> FALSE,     \* data_source_task is over
     joined |-> FALSE,          \* raw_tick_queue.join() has returned
     shutdown |-> FALSE,        \* self._shutdown_event is set
     ended |-> FALSE]           \* the processor task is over

\* No backtest is studied.
IdleBatch ==
    /\ backtest_source = <<>>
    /\ processor = FreshProcessor([tick_batch |-> 0, bar_batch |-> 0, oldest |-> None])

\* A backtest over any finite message stream.
InitBatch ==
    /\ backtest_source \in BacktestSources
    /\ processor \in {FreshProcessor(start) : start \in BatchStarts}

NextBatch ==
    \/ Put
    \/ FinishSource
    \/ \E dt \in {0, 1}, finalized \in {0, 1}, write \in WriteOutcomes :
          Dequeue(dt, finalized, write)
    \/ DequeueTimeout
    \/ Join
    \/ EndProcessor

AggregatorInit == InitAgg /\ IdleEnr /\ InitAlert /\ IdlePipe /\ IdleDiv /\ InitStrat /\ IdleBatch
EnricherInit == IdleAgg /\ InitEnr /\ InitAlert /\ IdlePipe /\ IdleDiv /\ InitStrat /\ IdleBatch
AlertInit == IdleAgg /\ IdleEnr /\ InitAlert /\ IdlePipe /\ IdleDiv /\ InitStrat /\ IdleBatch
PipelineInit == IdleAgg /\ IdleEnr /\ InitAlert /\ InitPipe /\ IdleDiv /\ InitStrat /\ IdleBatch
ReplayInit == IdleAgg /\ IdleEnr /\ InitAlert /\ InitReplay /\ IdleDiv /\ InitStrat /\ IdleBatch
DivergenceInit == IdleAgg /\ IdleEnr /\ InitAlert /\ IdlePipe /\ InitDiv /\ InitStrat /\ IdleBatch
StrategyInit == IdleAgg /\ IdleEnr /\ InitAlert /\ IdlePipe /\ IdleDiv /\ InitStrat /\ IdleBatch
BacktestInit == IdleAgg /\ IdleEnr /\ InitAlert /\ IdlePipe /\ IdleDiv /\ InitStrat /\ InitBatch

SpecAgg == AggregatorInit /\ [][NextAgg]_vars

SpecStruct == AggregatorInit /\ [][NextStruct]_vars

SpecFlow == AggregatorInit /\ [][NextFlow]_vars

SpecEnr == EnricherInit /\ [][NextEnr]_vars

SpecAbsorb == EnricherInit /\ [][NextAbsorb]_vars

SpecAlert == AlertInit /\ [][NextAlert]_vars

SpecRegime == AlertInit /\ [][NextRegime]_vars

SpecPipe == PipelineInit /\ [][NextPipe]_vars

SpecReplay == ReplayInit /\ [][NextReplay]_vars

SpecDiv == DivergenceInit /\ [][NextDiv]_vars

SpecStrat == StrategyInit /\ [][NextStrat]_vars

SpecBatch == BacktestInit /\ [][NextBatch]_vars

(***************************************************************************)
(*                                 Claims                                  *)
(***************************************************************************)

\* The bars add_tick has returned as finalized so far.
FinalizedBars ==
    Range(bar_history) \cup (IF completed_bar = NoBar THEN {} ELSE {completed_bar})

\* C1: every bar returned as finalized by add_tick has
\* low <= open <= high, low <= close <= high and volume >= 0.
C1_FinalizedBarWellFormed ==
    \A b \in FinalizedBars :
        /\ b.low <= b.open /\ b.open <= b.high
        /\ b.low <= b.close /\ b.close <= b.high
        /\ b.volume >= 0

\* A finalized bar with a real range, closed below its open, with volume.
C1_Witness ==
    \E b \in FinalizedBars : b.low < b.open /\ b.close < b.high /\ b.volume > 0

\* C2: fed ticks in chronological order, the bars returned as finalized
\* have strictly increasing timestamps, and a returned bar is the newest one.
C2_FinalizedTimestampsIncrease ==
    /\ \A i \in 1..Len(bar_history), j \in 1..Len(bar_history) :
          i < j => bar_history[i].timestamp < bar_history[j].timestamp
    /\ completed_bar # NoBar =>
          /\ bar_history # <<>>
          /\ completed_bar = bar_history[Len(bar_history)]

\* Two bars were finalized, the second one this tick, across the hour.
C2_Witness ==
    /\ Len(bar_history) >= 2
    /\ completed_bar # NoBar
    /\ completed_bar.timestamp >= 3600

\* On one enrich_tick call: the tick volume is the increase of the cumulative
\* volume over the previous tick's, and 0 when there is no previous tick, a
\* volume is missing, or the cumulative volume went down.
TickVolumeRule ==
    LET prev == instrument_state.last_tick
        cur  == enriched_tick'
    IN  cur.tick_volume =
            IF /\ prev.present
               /\ prev.volume_traded # None
               /\ cur.volume_traded # None
               /\ cur.volume_traded >= prev.volume_traded
            THEN cur.volume_traded - prev.volume_traded
            ELSE 0

\* C3: tick_volume >= 0 for every tick, and it follows TickVolumeRule.
C3_TickVolume ==
    /\ [](enriched_tick.present => enriched_tick.tick_volume >= 0)
    /\ [][TickVolumeRule]_vars

\* A tick whose cumulative volume grew over the previous tick's.
C3_Witness ==
    /\ enrTicks >= 2
    /\ enriched_tick.tick_volume > 0
    /\ enriched_tick.tick_volume = enriched_tick.volume_traded - 1

\* C4: the trade_sign enrich_tick produces and the stored last_trade_sign
\* are each one of -1, 0, +1.
C4_TradeSignTriState ==
    /\ instrument_state.last_trade_sign \in {-1, 0, 1}
    /\ enriched_tick.present => enriched_tick.trade_sign \in {-1, 0, 1}

\* A second tick classified as a sell at the lowest price, its sign stored.
C4_Witness ==
    /\ enrTicks >= 2
    /\ enriched_tick.trade_sign = -1
    /\ instrument_state.last_trade_sign = -1
    /\ enriched_tick.last_price = 1

\* Claim-side reading of the last run_logic call: the one event it emitted.
EmittedOne(event_type) == Len(fired) = 1 /\ fired[1].event_type = event_type

\* C5: every position change of a key comes with exactly one event of the
\* matching kind (NONE -> LONG|SHORT with one LONG_ENTRY|SHORT_ENTRY,
\* LONG|SHORT -> NONE with one LONG_EXIT|SHORT_EXIT), and a bar that does not
\* change the position emits no event.
C5_OneEventPerPositionChange ==
    barNo > 0 =>
        /\ (prev_position = "NONE" /\ state.position = "LONG") => EmittedOne("LONG_ENTRY")
        /\ (prev_position = "NONE" /\ state.position = "SHORT") => EmittedOne("SHORT_ENTRY")
        /\ (prev_position = "LONG" /\ state.position = "NONE") => EmittedOne("LONG_EXIT")
        /\ (prev_position = "SHORT" /\ state.position = "NONE") => EmittedOne("SHORT_EXIT")
        /\ (prev_position = state.position) => fired = <<>>

\* C6: a bar processed in position NONE enters LONG and emits LONG_ENTRY
\* exactly when COST = +1, ACCEPT = +1 and PATH # -1; enters SHORT and emits
\* SHORT_ENTRY exactly when COST = -1, ACCEPT = -1 and PATH # +1; otherwise
\* the position stays NONE and nothing is emitted.
C6_EntryFromNone ==
    (barNo > 0 /\ prev_position = "NONE") =>
        LET longNow == state.position = "LONG" /\ EmittedOne("LONG_ENTRY")
            shortNow == state.position = "SHORT" /\ EmittedOne("SHORT_ENTRY")
        IN  /\ longNow <=> (cost_regime = 1 /\ bar.accept = 1 /\ path_regime # -1)
            /\ shortNow <=> (cost_regime = -1 /\ bar.accept = -1 /\ path_regime # 1)
            /\ (~longNow /\ ~shortNow) => (state.position = "NONE" /\ fired = <<>>)

\* A bar with COST = +1 and ACCEPT = +1 that did not enter because PATH = -1.
C6_Witness ==
    /\ prev_position = "NONE"
    /\ cost_regime = 1
    /\ bar.accept = 1
    /\ path_regime = -1
    /\ state.position = "NONE"
    /\ fired = <<>>

\* C7: a bar processed in position LONG goes to NONE and emits LONG_EXIT
\* exactly when COST < +1 or PATH < 0, a bar processed in position SHORT goes
\* to NONE and emits SHORT_EXIT exactly when COST > -1 or PATH > 0; otherwise
\* the position is kept; no bar leaves one side and enters the other.
C7_ExitFromOpen ==
    barNo > 0 =>
        /\ prev_position = "LONG" =>
              /\ (state.position = "NONE" /\ EmittedOne("LONG_EXIT"))
                    <=> (cost_regime < 1 \/ path_regime < 0)
              /\ ~(cost_regime < 1 \/ path_regime < 0)
                    => (state.position = "LONG" /\ fired = <<>>)
              /\ state.position # "SHORT"
        /\ prev_position = "SHORT" =>
              /\ (state.position = "NONE" /\ EmittedOne("SHORT_EXIT"))
                    <=> (cost_regime > -1 \/ path_regime > 0)
              /\ ~(cost_regime > -1 \/ path_regime > 0)
                    => (state.position = "SHORT" /\ fired = <<>>)
              /\ state.position # "LONG"

\* The regime the last three samples h give against threshold thr.
RegimeOfLastThree(h, thr) ==
    IF Len(h) < 3 THEN 0
    ELSE IF h[1] > thr /\ h[2] > thr /\ h[3] > thr THEN 1
    ELSE IF h[1] < -thr /\ h[2] < -thr /\ h[3] < -thr THEN -1
    ELSE 0

\* The at most three most recent samples after sample v followed the samples h.
LastThree(h, v) == IF Len(h) < 3 THEN Append(h, v) ELSE <<h[2], h[3], v>>

RegimeStep ==
    /\ regime_hist'.cost = LastThree(regime_hist.cost, bar'.raw_cost)
    /\ regime_hist'.path = LastThree(regime_hist.path, bar'.raw_path)
    /\ (cost_regime = 1 /\ bar'.raw_cost <= COST_REGIME_THRESHOLD) => cost_regime' = 0
    /\ (path_regime = -1 /\ bar'.raw_path >= -PATH_REGIME_THRESHOLD) => path_regime' = 0

\* C8: the COST and PATH regimes are a function of the three most recent
\* samples: 0 until three were seen, +1 iff all three exceed the threshold,
\* -1 iff all three are below its negation, else 0; one sample that fails the
\* comparison takes a +1 or -1 regime back to 0 on that bar.
C8_RegimeFromLastThree ==
    /\ [](/\ cost_regime = RegimeOfLastThree(regime_hist.cost, 25)
          /\ path_regime = RegimeOfLastThree(regime_hist.path, 25))
    /\ [][RegimeStep]_vars

\* Past the third bar: a COST sample equal to the threshold gives regime 0,
\* three PATH samples below the negated threshold give -1.
C8_Witness ==
    /\ barNo >= 4
    /\ regime_hist.cost = <<30, 30, 25>>
    /\ cost_regime = 0
    /\ regime_hist.path = <<-30, -30, -30>>
    /\ path_regime = -1

\* C9: once the session is over, every entry was followed by an exit event
\* on a later bar, unless the entry bar was the last bar of the session.
C9_EntryExitsOrLastBar ==
    sessionOver => (openEntry = "NONE" \/ entryBar = barNo)

\* a / b >= c / d for fractions with positive denominators.
FracGE(x, y) == x[1] * y[2] >= y[1] * x[2]

\* C10: every exit event with a positive entry price reports
\* mfe >= pnl >= mae.
C10_ExcursionsBracketPnl ==
    \A i \in DOMAIN fired :
        (fired[i].event_type \in {"LONG_EXIT", "SHORT_EXIT"} /\ fired[i].entry_price > 0) =>
            /\ fired[i].mfe[2] > 0 /\ fired[i].pnl[2] > 0 /\ fired[i].mae[2] > 0
            /\ FracGE(fired[i].mfe, fired[i].pnl)
            /\ FracGE(fired[i].pnl, fired[i].mae)

\* A SHORT exit at the entry price after the trade saw both a better and a
\* worse price.
C10_Witness ==
    /\ EmittedOne("SHORT_EXIT")
    /\ fired[1].entry_price = 2
    /\ fired[1].mfe = <<1, 2>>
    /\ fired[1].pnl = <<0, 2>>
    /\ fired[1].mae = <<-1, 2>>

(***************************************************************************)
(* C11. On every finalized bar the flags inside and outside are never both *)
(* true, structure is one of up, down, inside, outside, mixed, init, and   *)
(* it is init exactly on the bar finalized when no bar had been finalized  *)
(* before.                                                                 *)
(***************************************************************************)
Structures == {"up", "down", "inside", "outside", "mixed", "init"}

C11_StructureFlags ==
    \A i \in 1..Len(bar_history) :
        /\ ~(bar_history[i].inside /\ bar_history[i].outside)
        /\ bar_history[i].structure \in Structures
        /\ (bar_history[i].structure = "init") <=> (i = 1)

\* Two bars were finalized and the second engulfs the first.
C11_Witness ==
    /\ Len(bar_history) >= 2
    /\ bar_history[2].outside
    /\ bar_history[2].structure = "outside"
    /\ bar_history[1].structure = "init"

(***************************************************************************)
(* C12. After any sequence of ticks, cumulative-volume regressions         *)
(* included, the volumes of the finalized bars of an interval sum to at    *)
(* most the session cumulative volume_traded the latest tick carried.      *)
(* C12_VolumeWithinSession is the statement as made; it fails once the     *)
(* cumulative volume has regressed below what finalized bars already hold. *)
(* C12_VolumeWithinSessionNoRegression is the statement for tick sequences *)
(* whose volume_traded never regresses.                                    *)
(***************************************************************************)
RECURSIVE SumVolume(_)
SumVolume(bars) ==
    IF bars = <<>> THEN 0 ELSE bars[1].volume + SumVolume(Tail(bars))

SessionVolume == IF lastCumVol = None THEN 0 ELSE lastCumVol

C12_VolumeWithinSession == SumVolume(bar_history) <= SessionVolume

C12_VolumeWithinSessionNoRegression ==
    ~cumRegressed => SumVolume(bar_history) <= SessionVolume

\* A bar that took volume was finalized in a session without a regression.
C12_Witness ==
    /\ ~cumRegressed
    /\ SumVolume(bar_history) > 0
    /\ SumVolume(bar_history) = SessionVolume

(***************************************************************************)
(* C13. Every finalized bar with volume > 0 has its bar_vwap within        *)
(* [low, high] of that bar. bar_vwap is the fraction <<pv, volume>>.       *)
(***************************************************************************)
C13_VwapWithinRange ==
    \A i \in 1..Len(bar_history) :
        LET b == bar_history[i] IN
        b.volume > 0 =>
            /\ b.low * b.bar_vwap[2] <= b.bar_vwap[1]
            /\ b.bar_vwap[1] <= b.high * b.bar_vwap[2]

(***************************************************************************)
(* C16. add_tick returns a finalized bar exactly when a building bar       *)
(* exists and the bucket start of the tick differs from the timestamp of   *)
(* the building bar; the returned bar carries the previous bucket's start  *)
(* and the new building bar the tick's bucket start; in every other case   *)
(* add_tick returns none.                                                  *)
(* C16_ReturnsOnRollover is the statement as made, for every tick; it      *)
(* fails for a tick without a usable last_price, which add_tick drops      *)
(* before it looks at the bucket. C16_PricedReturnsOnRollover is the       *)
(* statement for ticks with a usable last_price, with none returned for    *)
(* the others.                                                             *)
(***************************************************************************)
RolloverRule ==
    LET bucket == BucketStart(lastTickTs', interval_min)
        rolled == building_bar # NoBar /\ building_bar.timestamp # bucket
    IN  /\ (completed_bar' # NoBar) <=> rolled
        /\ rolled => /\ completed_bar'.timestamp = building_bar.timestamp
                      /\ building_bar'.timestamp = bucket

C16_ReturnsOnRollover ==
    [][aggTicks' # aggTicks => RolloverRule]_vars

C16_PricedReturnsOnRollover ==
    [][aggTicks' # aggTicks =>
          /\ tickPriced' => RolloverRule
          /\ ~tickPriced' => completed_bar' = NoBar /\ building_bar' = building_bar]_vars

\* A priced tick of a later bucket has just made add_tick return the bar of
\* the earlier bucket.
C16_Witness ==
    /\ tickPriced
    /\ completed_bar # NoBar
    /\ building_bar.timestamp = BucketStart(lastTickTs, interval_min)
    /\ completed_bar.timestamp < building_bar.timestamp

(***************************************************************************)
(* C17. For the priced ticks that fell into the bucket of the building     *)
(* bar: open is the price of the first, high the maximum price, low the    *)
(* minimum price, close the price of the last, and volume stays 0 when all *)
(* their tick volumes are 0.                                               *)
(* C17_BucketOhlcVolume is the statement as made; its volume clause fails  *)
(* when a tick with tick_volume 0 carries a cumulative volume above the    *)
(* one the aggregator last recorded (the rise came with a tick that        *)
(* add_tick dropped or that had no average_traded_price).                  *)
(* C17_BucketOhlcVolumeNoRise is the statement with the volume clause      *)
(* limited to buckets without such a tick.                                 *)
(***************************************************************************)
BucketPrices == {bucketTicks[i].last_price : i \in 1..Len(bucketTicks)}

BucketOhlc ==
    /\ building_bar.open = bucketTicks[1].last_price
    /\ building_bar.close = bucketTicks[Len(bucketTicks)].last_price
    /\ building_bar.high \in BucketPrices
    /\ \A p \in BucketPrices : p <= building_bar.high
    /\ building_bar.low \in BucketPrices
    /\ \A p \in BucketPrices : p >= building_bar.low

NoTickVolume == \A i \in 1..Len(bucketTicks) : bucketTicks[i].tick_volume = 0

NoRise == \A i \in 1..Len(bucketTicks) : ~bucketTicks[i].raised

RECURSIVE SumFlow(_)
SumFlow(ticks) ==
    IF ticks = <<>> THEN 0
    ELSE (IF ticks[1].tick_volume > 0
          THEN ticks[1].tick_volume * ticks[1].trade_sign ELSE 0)
         + SumFlow(Tail(ticks))

Preloaded == instrument_state.large_trade_threshold # Inf

C19_LargeTradeAtThreshold ==
    (enriched_tick.present /\ Preloaded) =>
        (enriched_tick.is_large_trade
            <=> enriched_tick.tick_volume >= instrument_state.large_trade_threshold)

C19_LargeTradeAtThresholdWithVolume ==
    (enriched_tick.present /\ Preloaded) =>
        (enriched_tick.is_large_trade
            <=> /\ enriched_tick.tick_volume > 0
                /\ enriched_tick.tick_volume >= instrument_state.large_trade_threshold)

\* A tick whose volume is exactly the pre-loaded threshold is flagged.
C19_Witness ==
    /\ enriched_tick.present
    /\ instrument_state.large_trade_threshold = 2
    /\ enriched_tick.tick_volume = 2
    /\ enriched_tick.is_large_trade

(***************************************************************************)
(* C20. When a tick carries a sane book (best bid > 0, best ask > best     *)
(* bid), trade_sign is +1 if last_price >= best ask and -1 if              *)
(* last_price <= best bid, whatever the previous tick and the carried      *)
(* sign are; only strictly inside the spread is the sign that of the       *)
(* price change against the previous tick (the carried sign when there is  *)
(* no change to go by).                                                    *)
(***************************************************************************)
SaneBook(d) ==
    /\ d.present /\ d.buy # <<>> /\ d.sell # <<>>
    /\ d.buy[1].price > 0
    /\ d.sell[1].price > d.buy[1].price

SignInsideSpread(lp, prev, carried) ==
    IF prev.present /\ prev.last_price # None /\ lp > prev.last_price THEN 1
    ELSE IF prev.present /\ prev.last_price # None /\ lp < prev.last_price THEN -1
    ELSE carried

C20_SignFromSaneBook ==
    [][(enrTicks' # enrTicks /\ SaneBook(enriched_tick'.depth)
            /\ enriched_tick'.last_price # None) =>
          LET lp == enriched_tick'.last_price
              bid == enriched_tick'.depth.buy[1].price
              ask == enriched_tick'.depth.sell[1].price
          IN  enriched_tick'.trade_sign =
                  IF lp >= ask THEN 1
                  ELSE IF lp <= bid THEN -1
                  ELSE SignInsideSpread(lp, instrument_state.last_tick,
                                        instrument_state.last_trade_sign)]_vars

\* A later tick that trades at the best ask of the sane book it carries.
C20_Witness ==
    /\ enrTicks >= 2
    /\ SaneBook(enriched_tick.depth)
    /\ enriched_tick.last_price = enriched_tick.depth.sell[1].price
    /\ enriched_tick.trade_sign = 1

Occurrences(bars, b) == Cardinality({i \in 1..Len(bars) : bars[i] = b})

C15_FinalizedEmittedOnce ==
    \A r \in DOMAIN pipeline :
        \A i \in 1..Len(pipeline[r].returned) :
            /\ Occurrences(pipeline[r].returned, pipeline[r].returned[i]) = 1
            /\ Occurrences(pipeline[r].appended, pipeline[r].returned[i]) = 1

(***************************************************************************)
(* C21. With the best ask price unchanged, every tick that is an           *)
(* aggressive buy at the best ask (trade_sign = +1, last_price equal to    *)
(* the previous best ask, tick_volume > 0) and displays an ask quantity    *)
(* greater than the previous quantity minus tick_volume adds one to the    *)
(* sell-side refill counter; is_sell_absorption is true on such a tick     *)
(* once the counter has reached 2 and false on every tick before the       *)
(* counter reaches 2. Symmetric for aggressive sells at the best bid and   *)
(* is_buy_absorption.                                                      *)
(* C21_AbsorptionAfterTwoRefills is the statement as made; it fails for a  *)
(* tick whose book shows one side only, which enrich_tick leaves out of    *)
(* both counters. C21_AbsorptionAfterTwoRefillsTwoSided is the statement   *)
(* for ticks that carry both a best bid and a best ask, and it adds that   *)
(* no other tick raises a counter.                                         *)
(***************************************************************************)
SellRefill ==
    LET t == enriched_tick'
        st == instrument_state
    IN  /\ t.depth.present /\ t.depth.sell # <<>>
        /\ t.depth.sell[1].price = st.last_best_ask_price
        /\ t.trade_sign = 1
        /\ t.last_price = st.last_best_ask_price
        /\ t.tick_volume > 0
        /\ t.depth.sell[1].quantity > st.last_best_ask_qty - t.tick_volume

BuyRefill ==
    LET t == enriched_tick'
        st == instrument_state
    IN  /\ t.depth.present /\ t.depth.buy # <<>>
        /\ t.depth.buy[1].price = st.last_best_bid_price
        /\ t.trade_sign = -1
        /\ t.last_price = st.last_best_bid_price
        /\ t.tick_volume > 0
        /\ t.depth.buy[1].quantity > st.last_best_bid_qty - t.tick_volume

TwoSided == enriched_tick'.depth.buy # <<>> /\ enriched_tick'.depth.sell # <<>>

FlagsBehindCounters ==
    /\ enriched_tick'.is_sell_absorption
          => instrument_state'.hidden_sell_order_refill_count >= 2
    /\ enriched_tick'.is_buy_absorption
          => instrument_state'.hidden_buy_order_refill_count >= 2

C22_LogicOncePerFinalizedBar ==
    \A r \in DOMAIN pipeline :
        /\ pipeline[r].logic_calls = pipeline[r].returned
        /\ \A k \in 1..Len(pipeline[r].logic_calls) : pipeline[r].logic_calls[k].final

\* Bars of both intervals have been finalized and passed to run_logic while
\* later bars are building.
C22_Witness ==
    \E r \in DOMAIN pipeline :
        /\ Len(pipeline[r].logic_calls) >= 3
        /\ \E j, k \in 1..Len(pipeline[r].logic_calls) :
              pipeline[r].logic_calls[j].interval # pipeline[r].logic_calls[k].interval
        /\ \A i \in 1..Len(PIPE_INTERVALS) : pipeline[r].aggregators[i] # NoBuilding

(***************************************************************************)
(* C23. Graceful shutdown: when the processor has terminated after the     *)
(* shutdown signal, every tick that was queued has been pulled and         *)
(* processed and every tick and bar that was batched has been handed to    *)
(* its sink, so the queue and both batches are empty.                      *)
(***************************************************************************)
C23_ShutdownDrainsAndFlushes ==
    \A r \in DOMAIN pipeline :
        pipeline[r].terminated =>
            /\ pipeline[r].raw_tick_queue = <<>>
            /\ pipeline[r].tick_batch = <<>>
            /\ pipeline[r].bar_batch = <<>>

(***************************************************************************)
(* C24. The core never drops a tick: every tick put on the raw tick queue  *)
(* is dequeued exactly once, in FIFO order, enriched, and dispatched to    *)
(* the aggregator of every configured interval, whatever the interleaving  *)
(* of producer and processor and whatever error another step of the same   *)
(* tick raises. FifoOnce is the queue's part of the statement;             *)
(* C24_NoTickDropped adds that every dequeued tick has reached add_tick    *)
(* of every interval.                                                      *)
(***************************************************************************)
FifoOnce ==
    \A r \in DOMAIN pipeline :
        /\ pipeline[r].raw_tick_queue
              = SubSeq(source, pipeline[r].consumed + 1, pipeline[r].produced)
        /\ pipeline[r].tick_sink \o pipeline[r].tick_batch
              = SubSeq(source, 1, pipeline[r].consumed)

C24_NoTickDropped ==
    /\ FifoOnce
    /\ \A r \in DOMAIN pipeline : \A i \in 1..Len(PIPE_INTERVALS) :
          pipeline[r].dispatched[i] = pipeline[r].consumed

(***************************************************************************)
(* C25. When a sink write fails during a flush, the batch being written is *)
(* retained and offered to the sink again at the next flush: nothing that  *)
(* was batched is discarded, so at any moment what a sink has received     *)
(* followed by what is still batched for it is everything that was batched *)
(* for it, for ticks, for their order depths and for bars.                 *)
(* TicksAndBarsRetained is the statement for batch_insert_ticks and        *)
(* batch_upsert_features alone.                                            *)
(***************************************************************************)
TicksAndBarsRetained ==
    \A r \in DOMAIN pipeline :
        /\ pipeline[r].tick_sink \o pipeline[r].tick_batch
              = SubSeq(source, 1, pipeline[r].consumed)
        /\ pipeline[r].bar_sink \o pipeline[r].bar_batch = pipeline[r].batched

C25_FailedBatchRetained ==
    /\ TicksAndBarsRetained
    /\ \A r \in DOMAIN pipeline :
          pipeline[r].depth_sink \o pipeline[r].tick_batch
              = SubSeq(source, 1, pipeline[r].consumed)

(***************************************************************************)
(* C26. A failing sink call does not corrupt in-memory state: after        *)
(* run_logic the trade state is what it would be had the sink succeeded,   *)
(* so the position of a key is the side of its last emitted entry that no  *)
(* emitted exit has closed, whether or not the sink accepted the events.   *)
(***************************************************************************)
C26_SinkFailureKeepsTradeState ==
    barNo > 0 => state.position = openEntry

(***************************************************************************)
(* C27. Sink failures, even on every flush, never stop the processor:      *)
(* the processor leaves its loop only once shutdown is signalled, and as   *)
(* long as shutdown is not signalled it can take the next message from a   *)
(* non-empty queue, whatever sink calls have failed before.                *)
(***************************************************************************)
C27_SinkFailureNeverStopsProcessor ==
    \A r \in DOMAIN pipeline :
        /\ pipeline[r].terminated => pipeline[r].shutdown
        /\ (~pipeline[r].shutdown /\ pipeline[r].raw_tick_queue # <<>>)
              => CanProcess(r)

\* A signal write failed on an earlier tick and later ticks were processed
\* through to the end of the stream.
C27_Witness ==
    /\ ~signal_sink_up
    /\ Len(pipeline[1].trade) > Len(pipeline[1].events)
    /\ ~pipeline[1].raised
    /\ pipeline[1].consumed = Len(source)
    /\ ~pipeline[1].shutdown

(***************************************************************************)
(* C28. A malformed tick (missing last_price) is skipped and leaves the    *)
(* enricher's per-instrument state (previous tick, previous best bid and   *)
(* ask, refill counters, last trade sign, fallback window) and every       *)
(* aggregator's state unchanged. SkippedTickLeavesAggregator is the        *)
(* aggregator's part, C28_MalformedTickLeavesState the enricher's.         *)
(***************************************************************************)
SkippedTickLeavesAggregator ==
    [][(aggTicks' # aggTicks /\ ~tickPriced')
          => UNCHANGED <<building_bar, bar_total_price_volume, prev_session_pv,
                         prev_cum_vol, bar_history>>]_vars

C28_MalformedTickLeavesState ==
    [][(enrTicks' # enrTicks /\ enriched_tick'.last_price = None)
          => instrument_state' = instrument_state]_vars

(***************************************************************************)
(* C29. For a given (stock, interval), signal events are emitted with      *)
(* strictly increasing event_time, the timestamp of the finalized bar that *)
(* triggered them and at most one per bar, and each event is emitted only  *)
(* after the aggregator has finalized that bar: the bars the engine acted  *)
(* on, and the events the sink accepted, are bars add_tick has returned,   *)
(* and per interval their timestamps increase strictly.                    *)
(***************************************************************************)
OfInterval(bars, interval) == SelectSeq(bars, LAMBDA b : b.interval = interval)

StrictlyTimeOrdered(bars) ==
    \A j, k \in 1..Len(bars) : j < k => bars[j].timestamp < bars[k].timestamp

AfterFinalization(bars, returned) ==
    \A k \in 1..Len(bars) :
        /\ bars[k].final
        /\ \E j \in 1..Len(returned) : returned[j] = bars[k]

C29_EventsOrderedAfterFinalization ==
    \A r \in DOMAIN pipeline :
        /\ AfterFinalization(pipeline[r].trade, pipeline[r].returned)
        /\ AfterFinalization(pipeline[r].events, pipeline[r].returned)
        /\ \A i \in 1..Len(PIPE_INTERVALS) :
              /\ StrictlyTimeOrdered(OfInterval(pipeline[r].trade, PIPE_INTERVALS[i]))
              /\ StrictlyTimeOrdered(OfInterval(pipeline[r].events, PIPE_INTERVALS[i]))

\* Two events of the 1-minute interval have been emitted and accepted.
C29_Witness ==
    \E r \in DOMAIN pipeline :
        /\ Len(OfInterval(pipeline[r].events, 1)) >= 2
        /\ pipeline[r].events = pipeline[r].trade

(***************************************************************************)
(* C30. Every bar finalized by the aggregator carries price_acceptance in  *)
(* {-1, 0, +1}: +1 if it closed above the previous finalized bar's high,   *)
(* -1 if it closed below the previous finalized bar's low, 0 otherwise, so *)
(* the ACCEPTANCE sensor read from the finalized bar takes these values.   *)
(***************************************************************************)
ClosedBeyond(b, prev) ==
    IF b.close > prev.high THEN 1
    ELSE IF b.close < prev.low THEN -1
    ELSE 0

C30_PriceAcceptanceOnFinalizedBar ==
    \A i \in 2..Len(bar_history) :
        AcceptanceOf(bar_history[i]) = ClosedBeyond(bar_history[i], bar_history[i - 1])

(***************************************************************************)
(* C31. Every bar finalized by the aggregator carries structure_ratio in   *)
(* [-1, 1]: +1 when HH and HL, -1 when LL and LH, 0 otherwise, so the PATH *)
(* sensor read from the finalized bar is non-zero on an up or down         *)
(* structure bar (values times 100).                                       *)
(***************************************************************************)
RatioOfStructure(b) ==
    IF b.HH /\ b.HL THEN 100
    ELSE IF b.LL /\ b.LH THEN -100
    ELSE 0

C31_StructureRatioOnFinalizedBar ==
    \A i \in 1..Len(bar_history) :
        StructureRatioOf(bar_history[i]) = RatioOfStructure(bar_history[i])

(***************************************************************************)
(* C32. While a LONG position is open, after each finalized bar peak_price *)
(* is the maximum high and mae_price the minimum low over all bars from    *)
(* the entry bar through the current bar, the bar on which the exit is     *)
(* reported included; while SHORT, peak_price is the minimum low and       *)
(* mae_price the maximum high over the same bars.                          *)
(***************************************************************************)
C32_PeakAndMaeAreTradeExtremes ==
    /\ state.position = "LONG" =>
          state.peak_price = tradeHigh /\ state.mae_price = tradeLow
    /\ state.position = "SHORT" =>
          state.peak_price = tradeLow /\ state.mae_price = tradeHigh
    /\ EmittedOne("LONG_EXIT") =>
          /\ fired[1].peak_price = tradeHigh
          /\ fired[1].mae = <<tradeLow - fired[1].entry_price, fired[1].entry_price>>
    /\ EmittedOne("SHORT_EXIT") =>
          /\ fired[1].peak_price = tradeLow
          /\ fired[1].mae = <<fired[1].entry_price - tradeHigh, fired[1].entry_price>>

\* A LONG trade entered at 2 whose second bar, a quiet one, left the peak at
\* 3 and the adverse price at 1.
C32_Witness ==
    /\ state.position = "LONG"
    /\ barNo = entryBar + 1
    /\ fired = <<>>
    /\ state.peak_price = 3
    /\ state.mae_price = 1
    /\ state.entry_price = 2

(***************************************************************************)
(* C33. On every entry the trade state records entry_price = the entry     *)
(* bar's close and entry_time = the entry bar's timestamp, with peak_price *)
(* and mae_price initialized to the entry bar's extremes (LONG: peak =     *)
(* high, mae = low; SHORT: peak = low, mae = high). EntryPriceAndExtremes  *)
(* is the statement without entry_time.                                    *)
(***************************************************************************)
JustEntered == barNo > 0 /\ prev_position = "NONE" /\ state.position # "NONE"

EntryPriceAndExtremes ==
    JustEntered =>
        /\ state.entry_price = fired[1].price
        /\ state.position = "LONG" =>
              state.peak_price = tradeHigh /\ state.mae_price = tradeLow
        /\ state.position = "SHORT" =>
              state.peak_price = tradeLow /\ state.mae_price = tradeHigh

C33_EntryRecorded ==
    /\ EntryPriceAndExtremes
    /\ JustEntered => EntryTimeOf(state) = bar.timestamp

(***************************************************************************)
(* C34. Whenever the best price on a side differs from the best price seen *)
(* on the previous tick of the instrument, that side's refill counter is   *)
(* reset to 0 on that tick, whatever the tick's volume, so a refill        *)
(* counter never counts refills observed at two different best prices.     *)
(***************************************************************************)
C34_BestPriceChangeResetsCounter ==
    [][enrTicks' # enrTicks =>
          /\ (/\ enriched_tick'.depth.sell # <<>>
               /\ enriched_tick'.depth.sell[1].price # instrument_state.last_best_ask_price)
                => instrument_state'.hidden_sell_order_refill_count = 0
          /\ (/\ enriched_tick'.depth.buy # <<>>
               /\ enriched_tick'.depth.buy[1].price # instrument_state.last_best_bid_price)
                => instrument_state'.hidden_buy_order_refill_count = 0]_vars

(***************************************************************************)
(* C37. In the divergence scores of a bar, the CVD secondary change used   *)
(* for price_vs_cvd and lvc_vs_cvd is the raw difference between the       *)
(* current bar's CVD and the lookback start bar's CVD divided by the total *)
(* bar volume of the window (1 when that volume is 0), so a non-zero CVD   *)
(* difference over the window yields a non-zero CVD change.                *)
(***************************************************************************)
C37_CvdChangeIsRawDifference ==
    div_scores.computed =>
        /\ div_scores.cvd_change
              = <<div_bar.cvd_5m - div_scores.start_bar.cvd_5m,
                  div_scores.volume_in_window>>
        /\ div_bar.cvd_5m # div_scores.start_bar.cvd_5m
              => div_scores.cvd_change[1] # 0

(***************************************************************************)
(* C36. In the StrategyEngine, when the close of a timing bar reaches the  *)
(* stop price of the open position, the position is exited with a          *)
(* stop-loss exit unless the structural veto applies; the veto applies     *)
(* exactly when |PATH| > PATH_CHOP_THRESHOLD, and a vetoed stop leaves the *)
(* position open.                                                          *)
(***************************************************************************)
StopReached ==
    /\ strategy_bar'.timestamp # strategy_bar.timestamp
    /\ strategy_bar'.interval = TIMING_INTERVAL
    /\ states.position # "NONE"
    /\ PriceHit(states, strategy_bar')

StopLossExit(evs) ==
    /\ Len(evs) = 1
    /\ evs[1].event = "EXIT"
    /\ evs[1].reason = "STRUCTURAL_STOP_LOSS"

C36_StopExitsUnlessPathBeyondChop ==
    [][StopReached =>
          IF states.path_5m > PATH_CHOP_THRESHOLD
                \/ states.path_5m < 0 - PATH_CHOP_THRESHOLD
          THEN ~StopLossExit(strategy_events')
          ELSE StopLossExit(strategy_events') /\ states'.position = "NONE"]_vars

(***************************************************************************)
(* C39. In the StrategyEngine, for one stock and any interleaving of       *)
(* regime-interval and timing-interval bars, ENTRY and EXIT events         *)
(* strictly alternate starting with ENTRY: an ENTRY is emitted only while  *)
(* the position is NONE and only from a timing-interval bar, at most one   *)
(* EXIT is emitted per bar, every EXIT sets the position back to NONE, and *)
(* bars of any other interval change no state.                             *)
(***************************************************************************)
EventTypes(evs) == [i \in 1..Len(evs) |-> evs[i].event]

\* The event types follow one another ENTRY, EXIT, ENTRY, ... after `before`.
Alternates(before, types) ==
    LET all == <<before>> \o types
    IN  \A i \in 2..Len(all) :
            all[i] = (IF all[i - 1] = "ENTRY" THEN "EXIT" ELSE "ENTRY")

BarHandled == strategy_bar'.timestamp # strategy_bar.timestamp

EntryAndExitRules ==
    LET types == EventTypes(strategy_events')
    IN  /\ (\E i \in 1..Len(types) : types[i] = "ENTRY")
              => states.position = "NONE" /\ strategy_bar'.interval = TIMING_INTERVAL
        /\ Cardinality({i \in 1..Len(types) : types[i] = "EXIT"}) <= 1
        /\ (\E i \in 1..Len(types) : types[i] = "EXIT") => states'.position = "NONE"
        /\ strategy_bar'.interval \notin {REGIME_INTERVAL, TIMING_INTERVAL}
              => states' = states /\ types = <<>>

C39_EntryExitAlternate ==
    [][BarHandled =>
          /\ Alternates(last_event, EventTypes(strategy_events'))
          /\ EntryAndExitRules]_vars

(***************************************************************************)
(* C38. Once an instrument has produced a non-zero trade_sign, every later *)
(* trade_sign of the instrument is non-zero: the sign a tick gets is       *)
(* stored, a tick that follows a non-zero stored sign gets a non-zero      *)
(* sign, and 0 is produced only by carrying forward a stored sign that is  *)
(* still 0.                                                                *)
(***************************************************************************)
C38_TradeSignStaysKnown ==
    [][enrTicks' # enrTicks =>
          /\ instrument_state'.last_trade_sign = enriched_tick'.trade_sign
          /\ instrument_state.last_trade_sign # 0 => enriched_tick'.trade_sign # 0
          /\ enriched_tick'.trade_sign = 0 => instrument_state.last_trade_sign = 0]_vars

\* A tick without a price, which no rule can classify, carried the known
\* sign of an earlier tick forward.
C38_Witness ==
    /\ enrTicks >= 2
    /\ enriched_tick.last_price = None
    /\ enriched_tick.trade_sign # 0

(***************************************************************************)
(* C35. Each batch is flushed when its size or its age exceeds its         *)
(* threshold: after a pass of the processor loop the tick batch holds at   *)
(* most 1000 ticks, the bar batch fewer than 100 bars, and no non-empty    *)
(* batch is older than the batch interval of 2 s, whether or not a further *)
(* tick has arrived.                                                       *)
(***************************************************************************)
C35_BatchesFlushedBySizeOrAge ==
    processor.pass # "none" =>
        /\ processor.tick_batch <= tick_batch_size
        /\ processor.bar_batch < bar_batch_size
        /\ processor.oldest # None => processor.now - processor.oldest <= batch_interval

(***************************************************************************)
(* C40. In backtesting mode the run terminates: task_done is called        *)
(* exactly once for every message dequeued from the raw tick queue,        *)
(* messages without data and messages whose processing raised included,    *)
(* and never on a dequeue timeout; so once the finite file source has      *)
(* finished, queue.join() returns, the shutdown event is set and the       *)
(* processor task ends. Stated step by step: the counts agree in every     *)
(* state, a run that has not ended always has a step other than waiting    *)
(* for a message, and every such step brings the end nearer.               *)
(***************************************************************************)
TaskDoneOncePerMessage ==
    /\ processor.task_done = processor.dequeued
    /\ processor.dequeued + Len(processor.queue) = processor.produced
    /\ processor.unfinished = processor.produced - processor.task_done

\* The steps of the run in the order the code takes them.
RunInOrder ==
    /\ processor.joined => processor.source_done /\ processor.queue = <<>>
    /\ processor.shutdown <=> processor.joined
    /\ processor.ended => processor.shutdown

\* A run that has not ended can put, finish its source, process a message,
\* return from join() or end its processor.
RunCanProceed ==
    ~processor.ended =>
        \/ ~processor.source_done /\ processor.produced < Len(backtest_source)
        \/ CanFinishSource
        \/ CanDequeue
        \/ CanJoin
        \/ CanEnd

\* What is left to do before the run is over.
StepsLeft ==
    2 * (Len(backtest_source) - processor.produced) + Len(processor.queue)
      + (IF processor.source_done THEN 0 ELSE 1)
      + (IF processor.joined THEN 0 ELSE 1)
      + (IF processor.ended THEN 0 ELSE 1)

C40_BacktestTerminates ==
    [][/\ TaskDoneOncePerMessage /\ TaskDoneOncePerMessage'
       /\ RunInOrder /\ RunInOrder'
       /\ RunCanProceed /\ RunCanProceed'
       /\ IF processor'.timeouts # processor.timeouts
          THEN processor'.task_done = processor.task_done /\ StepsLeft' = StepsLeft
          ELSE StepsLeft' < StepsLeft]_vars

\* A run over a tick, a message without data and a tick that made the
\* processing raise, with a dequeue timeout on the way, has ended.
C40_Witness ==
    /\ processor.ended
    /\ processor.joined
    /\ processor.timeouts > 0
    /\ processor.task_done = Len(backtest_source)
    /\ {backtest_source[i] : i \in 1..Len(backtest_source)} = MessageKinds

====
